---------------------------- MODULE Spec2Model ----------------------------
(***************************************************************************)
(* Macagotchi firmware: the membership filter (BloomFilter), the mood      *)
(* engine (MoodEngine), the calibration controller (Calibration), the      *)
(* persistence layer (Storage) and the main loop that drives them.         *)
(*                                                                         *)
(* The specifications share the module's variables:                        *)
(*   SpecBloom     the BloomFilter object under begin / add / contains     *)
(*   SpecMood      the MoodEngine statics under update / forceTransient    *)
(*   SpecOverride  the MoodEngine with the history of its overrides in     *)
(*                 elapsed time                                            *)
(*   SpecHunger    the Hunger statics under begin / feed / update / set    *)
(*   SpecBuffer    the MacBuffer object under add / countRecent / expire   *)
(*   SpecMotion    the Motion statics under update                         *)
(*   SpecRestore   the BloomFilter with its bytes saved and restored       *)
(*   SpecStartup   the BloomFilter, the MacBuffer and the scan counters as *)
(*                 setup() and the scan callback drive them                *)
(*   SpecCalibration  the Calibration statics under begin /                *)
(*                 onMacDiscovered                                         *)
(*   SpecButtons   the Buttons statics under poll                          *)
(*   Spec          the device: setup(), loop(), power cycles, Storage,     *)
(*                 Calibration                                             *)
(*   SpecHatch     the device in one session, with the fairness of loop()  *)
(*                 and of the clock                                        *)
(* Each specification leaves the variables of the other components at      *)
(* their initial values.                                                   *)
(***************************************************************************)
EXTENDS Integers, Sequences, FiniteSets, TLC

(***************************************************************************)
(* uint32_t values.  TLC's integers are 32-bit signed, so an unsigned      *)
(* 32-bit value v is kept as the pair <<v \div 2^16, v % 2^16>> and the     *)
(* arithmetic below is arithmetic modulo 2^32 on these pairs.              *)
(***************************************************************************)
W16 == 256 * 256

U32(n) == <<n \div W16, n % W16>>

U32Set(S) == {U32(n) : n \in S}

Lt32(a, b) == a[1] < b[1] \/ (a[1] = b[1] /\ a[2] < b[2])

Le32(a, b) == a = b \/ Lt32(a, b)

Add32(a, b) ==
    LET lo == a[2] + b[2]
        hi == a[1] + b[1] + (lo \div W16)
    IN  <<hi % W16, lo % W16>>

Sub32(a, b) ==
    LET lo     == a[2] - b[2]
        borrow == IF lo < 0 THEN 1 ELSE 0
        hi     == a[1] - b[1] - borrow
    IN  <<(hi + 2 * W16) % W16, (lo + W16) % W16>>

Zero32 == <<0, 0>>

\* The value of a uint32_t known to be below 2^31, as an integer.
ToInt(a) == a[1] * W16 + a[2]

Min(x, y) == IF x <= y THEN x ELSE y

RECURSIVE Gcd(_, _)
Gcd(x, y) == IF y = 0 THEN x ELSE Gcd(y, x % y)

(***************************************************************************)
(* Variables                                                               *)
(***************************************************************************)
VARIABLES
    now,           \* millis(): the platform's 32-bit millisecond counter
    lastOp,        \* history: the last BloomFilter or MoodEngine operation
    lastArgs,      \* history: the arguments of the last MoodEngine::update
    \* BloomFilter object (bloom_filter.h)
    bitsNull,      \* _bits == nullptr
    bits,          \* the bit positions of _bits that hold 1
    byteSize,      \* _byteSize
    bitSize,       \* _bitSize
    numHash,       \* _numHash
    bloomAdded,    \* history: the identities added since the filter was configured
    bloomRet,      \* the last contains() call and what it returned
    bitsBefore,    \* history: bits before the last BloomFilter operation
    \* MoodEngine statics (mood.cpp)
    s_mood,
    s_transient,
    s_inTransient,
    s_transientEnd,
    \* Storage: the persisted keys of the calibration record (storage.cpp)
    nvs,
    \* Calibration statics (calibration.cpp)
    s_startMs,
    s_macCount,
    s_stableCount,
    s_randCount,
    s_randRatio,   \* the float, as the reduced fraction <<numerator, denominator>>
    \* main.cpp
    pc,            \* "setup": powered on, setup() not yet run; "loop": in loop()
    appState,
    s_lastScanMs,
    s_scanInterval,
    s_macTotal,
    scansSinceFlush,
    \* history
    boots,         \* power cycles so far
    sinceStart,    \* true time since cal_start was first persisted, saturating at 48 h
    startWrites,   \* Storage::setCalibrationStart calls so far
    beginCalls,    \* Calibration::begin calls so far
    everHatched,   \* Calibration::lock has run
    wrapped,       \* the counter has passed 2^32 since the last power-on
    \* Hunger statics (hunger.cpp)
    s_hunger,
    s_lastDecayMs,
    sinceDecay,    \* history: elapsed time since begin or the last decay, up to 60000
    hungerPrev,    \* history: the statics before the last Hunger call, and its argument
    \* MacBuffer object (mac_buffer.h)
    buf,           \* _buf: slot index -> [hash, timestamp, isStable]
    head,          \* _head
    count,         \* _count
    bufHistory,    \* history: the add() calls, oldest first, with the latest entries
    bufRet,        \* the last countRecent() or countBreakdown() call and its results
    \* history of the MoodEngine's overrides
    ovBy,          \* "none", or who installed the last override: "shake" or "force"
    ovAge,         \* elapsed time since it was installed, up to 5000
    ovDur,         \* its duration
    ovMood,        \* its mood
    unforced,      \* the mood begin() or update's rule cascade set last
    moodRet,       \* the last getCurrent() call: the statics before it and its result
    \* Motion statics (motion.cpp)
    s_state,
    s_accelMag,
    s_magHistory,  \* index 0 .. HISTORY-1 -> magnitude
    s_histIdx,
    baselineRun,   \* history: consecutive samples at the baseline so far, up to HISTORY
    motionTicks,   \* history: update() calls since power-on, up to HISTORY
    lastOddMag,    \* history: the last sample off the baseline since power-on, or 0
    \* BloomFilter persistence
    blob,          \* the bytes last taken from data()/byteSize(), as Storage keeps them
    loadRet,       \* the last loadFrom() call: its length argument and result
    \* BleScanner statics (ble_scanner.cpp)
    s_newStable,
    s_newRandom,
    newCounted,    \* history: identity -> times counted as new since power-on
    \* Buttons statics (storage.cpp)
    s_btn1,
    s_btn2,
    s_bothPressedAt,
    s_bothHoldFired,
    btnEvent,      \* the event the last poll() returned
    btnTicks,      \* history: clock advances so far
    gShape,        \* history: the buttons of the gesture: "idle", "one1", "one2", "both", "mixed"
    gHeld,         \* history: time since the gesture started, until the poll() that finds
                   \* the buttons released, up to 10000
    gSeen,         \* history: the same time at the last poll() that found them still down
    gEvents        \* history: the events poll() returned since the gesture started

bloomVars == <<bitsNull, bits, byteSize, bitSize, numHash, bloomAdded, bloomRet,
               bitsBefore>>

moodVars == <<s_mood, s_transient, s_inTransient, s_transientEnd, lastArgs>>

calVars == <<s_startMs, s_macCount, s_stableCount, s_randCount, s_randRatio>>

mainVars == <<pc, appState, s_lastScanMs, s_scanInterval, s_macTotal,
              scansSinceFlush>>

histVars == <<boots, sinceStart, startWrites, beginCalls, everHatched, wrapped>>

deviceVars == <<nvs, calVars, mainVars, histVars>>

hungerVars == <<s_hunger, s_lastDecayMs, sinceDecay, hungerPrev>>

bufferVars == <<buf, head, count, bufHistory, bufRet>>

overrideVars == <<ovBy, ovAge, ovDur, ovMood, unforced, moodRet>>

motionVars == <<s_state, s_accelMag, s_magHistory, s_histIdx, baselineRun,
                motionTicks, lastOddMag>>

restoreVars == <<blob, loadRet>>

scanVars == <<s_newStable, s_newRandom, newCounted>>

buttonVars == <<s_btn1, s_btn2, s_bothPressedAt, s_bothHoldFired, btnEvent,
                btnTicks, gShape, gHeld, gSeen, gEvents>>

unitVars == <<hungerVars, bufferVars, overrideVars, motionVars, restoreVars,
              scanVars, buttonVars>>

vars == <<now, lastOp, bloomVars, moodVars, deviceVars, unitVars>>

(***************************************************************************)
(* BloomFilter                                                             *)
(***************************************************************************)

\* 6-byte hardware addresses offered to the filter.
MACS ==
    { <<0, 0, 0, 0, 0, 1>>,
      <<2, 0, 0, 0, 0, 1>>,
      <<170, 187, 204, 221, 238, 255>>,
      <<0, 17, 34, 51, 68, 85>>,
      <<6, 1, 2, 3, 4, 5>> }

\* begin(capacity, fpRate): the sizes the floating-point formulas
\*   m = ceil(-n ln p / (ln 2)^2),  k = round((m / n) ln 2) clamped to [1, 20]
\* give for the call main.cpp makes (10000, 0.01f) and for a small filter
\* (3, 0.1f) in which probes of different identities collide.
BloomConfigs ==
    { [capacity |-> 10000, fpPercent |-> 1,  m |-> 95851, k |-> 7],
      [capacity |-> 3,     fpPercent |-> 10, m |-> 15,    k |-> 3] }

RECURSIVE XorBits(_, _, _)
XorBits(a, b, n) ==
    IF n = 0 THEN 0
    ELSE (((a % 2) + (b % 2)) % 2) + 2 * XorBits(a \div 2, b \div 2, n - 1)

\* h ^= byte, on a uint32_t h: only the low 8 bits change.
XorByte32(h, byte) ==
    <<h[1], (h[2] \div 256) * 256 + XorBits(h[2] % 256, byte, 8)>>

\* h *= 16777619UL modulo 2^32, with 16777619 = 2^24 + 403.
MulPrime32(h) ==
    LET lo403 == h[2] * 403
        hi    == h[1] * 403 + (lo403 \div W16) + ((h[2] % 256) * 256)
    IN  <<hi % W16, lo403 % W16>>

\* (x * 2^n) % m without leaving 31 bits (m < 2^30).
RECURSIVE ShiftMod(_, _, _)
ShiftMod(x, n, m) == IF n = 0 THEN x % m ELSE ShiftMod((2 * (x % m)) % m, n - 1, m)

\* h % m for a uint32_t h.
Mod32(h, m) == (ShiftMod(h[1], 16, m) + (h[2] % m)) % m

FnvOffset == <<33052, 40389>>     \* 2166136261UL = 0x811C9DC5

RECURSIVE FnvFold(_, _, _)
FnvFold(h, mac, i) ==
    IF i > 6 THEN h
    ELSE FnvFold(MulPrime32(XorByte32(h, mac[i])), mac, i + 1)

\* BloomFilter::hash(mac, seed) for a filter of m bits.
Hash(mac, seed, m) == Mod32(FnvFold(XorByte32(FnvOffset, seed), mac, 1), m)

\* The bit positions add(mac) sets and contains(mac) tests: seeds 0 .. _numHash-1.
Probes(mac) == {Hash(mac, i, bitSize) : i \in 0 .. numHash - 1}

\* BloomFilter::contains on an allocated bit array.
Contains(mac) == \A bit \in Probes(mac) : bit \in bits

\* The statics of a constructed filter that begin() has not been called on.
BloomConstructed ==
    /\ bitsNull = TRUE
    /\ bits = {}
    /\ byteSize = 0
    /\ bitSize = 0
    /\ numHash = 0
    /\ bloomAdded = {}
    /\ bloomRet = [mac |-> <<>>, result |-> FALSE]
    /\ bitsBefore = {}

\* BloomFilter::begin: sizes the filter, allocates and zeroes the array;
\* returns false, leaving _bits null, when the allocation fails.
BloomBegin(cfg, allocOk) ==
    /\ bitsNull /\ bitSize = 0
    /\ bitSize' = cfg.m
    /\ byteSize' = (cfg.m + 7) \div 8
    /\ numHash' = cfg.k
    /\ bitsNull' = ~allocOk
    /\ bits' = {}
    /\ bitsBefore' = bits
    /\ UNCHANGED <<bloomAdded, bloomRet>>

\* A dereference of the null _bits (begin failed, _numHash > 0) faults; the
\* device restarts and the filter is constructed anew.
BloomFault ==
    /\ bitsNull' = TRUE
    /\ bits' = {}
    /\ byteSize' = 0
    /\ bitSize' = 0
    /\ numHash' = 0
    /\ bloomAdded' = {}
    /\ bloomRet' = [mac |-> <<>>, result |-> FALSE]
    /\ bitsBefore' = {}

\* add with its loop started at seed 1.
BloomAddSkipsFirstProbe(mac) ==
    IF numHash = 0
    THEN /\ bitsBefore' = bits
         /\ UNCHANGED <<bitsNull, bits, byteSize, bitSize, numHash, bloomAdded,
                        bloomRet>>
    ELSE IF bitsNull
    THEN BloomFault
    ELSE /\ bits' = bits \cup {Hash(mac, i, bitSize) : i \in 1 .. numHash - 1}
         /\ bloomAdded' = bloomAdded \cup {mac}
         /\ bitsBefore' = bits
         /\ UNCHANGED <<bitsNull, byteSize, bitSize, numHash, bloomRet>>

\* BloomFilter::add
BloomAdd(mac) ==
    IF numHash = 0
    THEN /\ bitsBefore' = bits              \* the loop body never runs
         /\ UNCHANGED <<bitsNull, bits, byteSize, bitSize, numHash, bloomAdded,
                        bloomRet>>
    ELSE IF bitsNull
    THEN BloomFault
    ELSE /\ bits' = bits \cup Probes(mac)
         /\ bloomAdded' = bloomAdded \cup {mac}
         /\ bitsBefore' = bits
         /\ UNCHANGED <<bitsNull, byteSize, bitSize, numHash, bloomRet>>

\* BloomFilter::contains, the result recorded in bloomRet
BloomContains(mac) ==
    IF numHash = 0
    THEN /\ bloomRet' = [mac |-> mac, result |-> TRUE]
         /\ bitsBefore' = bits
         /\ UNCHANGED <<bitsNull, bits, byteSize, bitSize, numHash, bloomAdded>>
    ELSE IF bitsNull
    THEN BloomFault
    ELSE /\ bloomRet' = [mac |-> mac, result |-> Contains(mac)]
         /\ bitsBefore' = bits
         /\ UNCHANGED <<bitsNull, bits, byteSize, bitSize, numHash, bloomAdded>>

(***************************************************************************)
(* MoodEngine                                                              *)
(***************************************************************************)

Moods == {"CALM", "HAPPY", "EXCITED", "SHOCKED", "SLEEPING", "ANGRY"}

MotionStates == {"STATIONARY", "CARRIED", "IN_TRANSIT", "SHAKEN"}

\* The MoodEngine statics as a record.
MoodStatics ==
    [mood |-> s_mood, transient |-> s_transient,
     inTransient |-> s_inTransient, transientEnd |-> s_transientEnd]

\* The statics as mood.cpp initialises them.
MoodInitial ==
    [mood |-> "CALM", transient |-> "CALM",
     inTransient |-> FALSE, transientEnd |-> Zero32]

\* moodRet before any getCurrent call.
NoGetCurrent == [called |-> FALSE, before |-> MoodInitial, value |-> "CALM"]

\* forceTransient without its last assignment, s_mood = m.
ForceTransientKeepingBase(st, t, m, durationMs) ==
    [mood |-> st.mood, transient |-> m,
     inTransient |-> TRUE, transientEnd |-> Add32(t, U32(durationMs))]

\* MoodEngine::forceTransient(m, durationMs) on statics st at clock value t.
ForceTransient(st, t, m, durationMs) ==
    [mood |-> m, transient |-> m,
     inTransient |-> TRUE, transientEnd |-> Add32(t, U32(durationMs))]

\* update with the two novelty tests in the other order.
UpdateHappyBeforeExcited(st, t, hunger, motion, newMacsThisScan, recentMacs12h) ==
    IF st.inTransient /\ Lt32(t, st.transientEnd)
    THEN [st EXCEPT !.mood = st.transient]
    ELSE LET st1 == [st EXCEPT !.inTransient = FALSE]
         IN  IF motion = "SHAKEN"
             THEN [mood |-> "ANGRY", transient |-> "ANGRY", inTransient |-> TRUE,
                   transientEnd |-> Add32(t, U32(5000))]
             ELSE IF hunger = 0 THEN [st1 EXCEPT !.mood = "SHOCKED"]
             ELSE IF newMacsThisScan >= 3 \/ recentMacs12h >= 20
                  THEN [st1 EXCEPT !.mood = "HAPPY"]
             ELSE IF newMacsThisScan >= 10 THEN [st1 EXCEPT !.mood = "EXCITED"]
             ELSE IF hunger > 20 THEN [st1 EXCEPT !.mood = "CALM"]
             ELSE [st1 EXCEPT !.mood = "SHOCKED"]

\* update with the hunger == 0 test after the novelty tests.
UpdateNoveltyBeforeStarving(st, t, hunger, motion, newMacsThisScan, recentMacs12h) ==
    IF st.inTransient /\ Lt32(t, st.transientEnd)
    THEN [st EXCEPT !.mood = st.transient]
    ELSE LET st1 == [st EXCEPT !.inTransient = FALSE]
         IN  IF motion = "SHAKEN"
             THEN [mood |-> "ANGRY", transient |-> "ANGRY", inTransient |-> TRUE,
                   transientEnd |-> Add32(t, U32(5000))]
             ELSE IF newMacsThisScan >= 10 THEN [st1 EXCEPT !.mood = "EXCITED"]
             ELSE IF newMacsThisScan >= 3 \/ recentMacs12h >= 20
                  THEN [st1 EXCEPT !.mood = "HAPPY"]
             ELSE IF hunger = 0 THEN [st1 EXCEPT !.mood = "SHOCKED"]
             ELSE IF hunger > 20 THEN [st1 EXCEPT !.mood = "CALM"]
             ELSE [st1 EXCEPT !.mood = "SHOCKED"]

\* MoodEngine::update on statics st at clock value t: the statics it leaves.
Update(st, t, hunger, motion, newMacsThisScan, recentMacs12h) ==
    IF st.inTransient /\ Lt32(t, st.transientEnd)
    THEN [st EXCEPT !.mood = st.transient]
    ELSE LET st1 == [st EXCEPT !.inTransient = FALSE]
         IN  IF motion = "SHAKEN" THEN ForceTransient(st1, t, "ANGRY", 5000)
             ELSE IF hunger = 0 THEN [st1 EXCEPT !.mood = "SHOCKED"]
             ELSE IF newMacsThisScan >= 10 THEN [st1 EXCEPT !.mood = "EXCITED"]
             ELSE IF newMacsThisScan >= 3 \/ recentMacs12h >= 20
                  THEN [st1 EXCEPT !.mood = "HAPPY"]
             ELSE IF hunger > 60 THEN [st1 EXCEPT !.mood = "CALM"]
             ELSE IF hunger > 20 THEN [st1 EXCEPT !.mood = "CALM"]
             ELSE [st1 EXCEPT !.mood = "SHOCKED"]

\* getCurrent testing the expiry alone, not s_inTransient.
GetCurrentIgnoringFlag(st, t) ==
    IF Lt32(t, st.transientEnd) THEN st.transient ELSE st.mood

\* MoodEngine::getCurrent() on statics st at clock value t.
GetCurrent(st, t) ==
    IF st.inTransient /\ Lt32(t, st.transientEnd) THEN st.transient ELSE st.mood

SetMoodStatics(st) ==
    /\ s_mood' = st.mood
    /\ s_transient' = st.transient
    /\ s_inTransient' = st.inTransient
    /\ s_transientEnd' = st.transientEnd

\* Clock values the mood engine is observed at: around the 2000 ms and 5000 ms
\* expiries of overrides installed at 0 and 1000, and just below 2^32.
MoodClock ==
    U32Set({0, 1000, 2999, 3000, 5999, 6000}) \cup {<<65535, 64536>>, <<65535, 65535>>}

\* The (mood, duration) pairs forceTransient is called with: the pet reaction
\* of handleButton, the shake reaction of update, and an external sleep override.
ForceInputs == {<<"HAPPY", 2000>>, <<"ANGRY", 5000>>, <<"SLEEPING", 5000>>}

\* The <<hunger, motion, newMacsThisScan, recentMacs12h>> update is called with.
UpdateInputs ==
    { <<0, "STATIONARY", 0, 0>>,   <<0, "SHAKEN", 0, 0>>,
      <<0, "CARRIED", 12, 20>>,    <<50, "IN_TRANSIT", 12, 0>>,
      <<50, "STATIONARY", 3, 0>>,  <<50, "STATIONARY", 0, 20>>,
      <<61, "CARRIED", 0, 0>>,     <<21, "STATIONARY", 0, 0>>,
      <<20, "STATIONARY", 0, 0>>,  <<50, "SHAKEN", 0, 0>> }

\* lastArgs before any update call.
NoArgs == <<0, "", 0, 0>>

\* Power-on and setup(): the statics are initialised and, on a hatched device,
\* MoodEngine::begin((Mood)Storage::getMood()) sets the base mood.
MoodBoot(initial) ==
    /\ now' = Zero32
    /\ SetMoodStatics([MoodInitial EXCEPT !.mood = initial])
    /\ lastOp' = "boot"
    /\ lastArgs' = NoArgs
    /\ UNCHANGED <<bloomVars, deviceVars, unitVars>>

\* Time passes: the counter moves to another observed value (to a lower one
\* by wrapping through 2^32).
MoodTick(t) ==
    /\ t # now
    /\ now' = t
    /\ lastOp' = "tick"
    /\ UNCHANGED <<bloomVars, moodVars, deviceVars, unitVars>>

MoodUpdate(hunger, motion, newMacsThisScan, recentMacs12h) ==
    /\ SetMoodStatics(Update(MoodStatics, now, hunger, motion,
                             newMacsThisScan, recentMacs12h))
    /\ lastOp' = "update"
    /\ lastArgs' = <<hunger, motion, newMacsThisScan, recentMacs12h>>
    /\ UNCHANGED <<now, bloomVars, deviceVars, unitVars>>

MoodForceTransient(m, durationMs) ==
    /\ SetMoodStatics(ForceTransient(MoodStatics, now, m, durationMs))
    /\ lastOp' = "forceTransient"
    /\ lastArgs' = lastArgs
    /\ UNCHANGED <<now, bloomVars, deviceVars, unitVars>>

(***************************************************************************)
(* Storage: the persisted calibration record                               *)
(***************************************************************************)

\* What the getters return for keys never written.
NvsEmpty ==
    [cal_start   |-> Zero32,      \* getULong64(NVS_KEY_CAL_START, 0)
     hatched     |-> FALSE,       \* getBool(NVS_KEY_HATCHED, false)
     rand_ratio  |-> <<1, 2>>,    \* getFloat(NVS_KEY_RAND_RATIO, 0.5f)
     mac_total   |-> 0,           \* getULong(NVS_KEY_MAC_TOTAL, 0)
     mpu_offsets |-> FALSE]       \* hasMpuOffsets()

(***************************************************************************)
(* Calibration                                                             *)
(***************************************************************************)

CALIBRATION_DURATION_MS == 172800000
CALIBRATION_MIN_MACS == 50

Duration32 == U32(CALIBRATION_DURATION_MS)

\* The float randCount / total, as a reduced fraction.
Ratio(randCount, total) ==
    LET g == Gcd(randCount, total) IN <<randCount \div g, total \div g>>

CalStatics ==
    [startMs |-> s_startMs, macCount |-> s_macCount, stableCount |-> s_stableCount,
     randCount |-> s_randCount, randRatio |-> s_randRatio]

\* The statics as calibration.cpp initialises them.
CalInitial ==
    [startMs |-> Zero32, macCount |-> 0, stableCount |-> 0,
     randCount |-> 0, randRatio |-> <<1, 2>>]

SetCalStatics(c) ==
    /\ s_startMs' = c.startMs
    /\ s_macCount' = c.macCount
    /\ s_stableCount' = c.stableCount
    /\ s_randCount' = c.randCount
    /\ s_randRatio' = c.randRatio

\* begin without the early return on the hatched flag.
BeginIgnoringHatched(c, n, t) ==
    LET first == n.cal_start = Zero32
        start == IF first THEN t ELSE n.cal_start
    IN  [ret        |-> FALSE,
         cal        |-> [c EXCEPT !.startMs = start,
                                  !.randRatio = n.rand_ratio,
                                  !.macCount = n.mac_total],
         nvs        |-> IF first THEN [n EXCEPT !.cal_start = t] ELSE n,
         wroteStart |-> first]

\* begin stamping the start timestamp on every call.
BeginRestamping(c, n, t) ==
    IF n.hatched
    THEN [ret |-> TRUE, cal |-> c, nvs |-> n, wroteStart |-> FALSE]
    ELSE [ret        |-> FALSE,
          cal        |-> [c EXCEPT !.startMs = t,
                                   !.randRatio = n.rand_ratio,
                                   !.macCount = n.mac_total],
          nvs        |-> [n EXCEPT !.cal_start = t],
          wroteStart |-> TRUE]

\* Calibration::begin() on statics c and store n at clock value t: what it
\* returns, the statics and the store it leaves, and whether it called
\* Storage::setCalibrationStart.
Begin(c, n, t) ==
    IF n.hatched
    THEN [ret |-> TRUE, cal |-> c, nvs |-> n, wroteStart |-> FALSE]
    ELSE LET first == n.cal_start = Zero32
             start == IF first THEN t ELSE n.cal_start
         IN  [ret        |-> FALSE,
              cal        |-> [c EXCEPT !.startMs = start,
                                       !.randRatio = n.rand_ratio,
                                       !.macCount = n.mac_total],
              nvs        |-> IF first THEN [n EXCEPT !.cal_start = t] ELSE n,
              wroteStart |-> first]

\* Calibration::onMacDiscovered, called for newStable stable and then
\* newRandom random identities (the loop of updateEggPhase).
OnMacsDiscovered(c, newStable, newRandom) ==
    LET stable == c.stableCount + newStable
        rand   == c.randCount + newRandom
    IN  IF newStable + newRandom = 0 THEN c
        ELSE [c EXCEPT !.macCount = c.macCount + newStable + newRandom,
                       !.stableCount = stable,
                       !.randCount = rand,
                       !.randRatio = Ratio(rand, stable + rand)]

\* elapsed = (uint64_t)millis() - s_startMs: the 64-bit difference wraps to at
\* least 2^64 - 2^32 when the counter is below the start timestamp, and is the
\* 32-bit difference otherwise.
Elapsed(c, t) ==
    [wrapped |-> Lt32(t, c.startMs), low |-> Sub32(t, c.startMs)]

\* Calibration::remainingMs() at clock value t.
RemainingMs(c, t) ==
    LET e == Elapsed(c, t)
    IN  IF e.wrapped \/ ~Lt32(e.low, Duration32) THEN 0
        ELSE CALIBRATION_DURATION_MS - ToInt(e.low)

\* Calibration::progressPercent() at clock value t; elapsed * 100 / 172800000
\* is elapsed / 1728000 in integer division.
ProgressPercent(c, t) ==
    LET e == Elapsed(c, t)
    IN  IF e.wrapped \/ ~Lt32(e.low, Duration32) THEN 100
        ELSE ToInt(e.low) \div (CALIBRATION_DURATION_MS \div 100)

\* isComplete deciding on the time alone.
IsCompleteOnTimeAlone(c, t) == RemainingMs(c, t) = 0

\* isComplete asking for more than the minimum count.
IsCompleteAboveMinimum(c, t) ==
    IF RemainingMs(c, t) > 0 THEN FALSE
    ELSE c.macCount > CALIBRATION_MIN_MACS

\* Calibration::isComplete() at clock value t.
IsComplete(c, t) ==
    IF RemainingMs(c, t) > 0 THEN FALSE
    ELSE c.macCount >= CALIBRATION_MIN_MACS

\* lock() that writes the total and the ratio but not the hatched flag.
LockWithoutHatchedFlag(c, n) ==
    [n EXCEPT !.mac_total = c.macCount, !.rand_ratio = c.randRatio]

\* Calibration::lock(): the store it leaves.
Lock(c, n) ==
    [n EXCEPT !.rand_ratio = c.randRatio, !.mac_total = c.macCount,
              !.hatched = TRUE]

(***************************************************************************)
(* hunger.cpp: the Hunger namespace.  s_hunger is a uint8_t and            *)
(* s_lastDecayMs a millis() reading.                                       *)
(***************************************************************************)

HUNGER_MAX == 100
HUNGER_STABLE_MAC_FEED == 10
HUNGER_RAND_MAC_FEED == 3
HUNGER_DECAY_IDLE_PER_MIN == 2
HUNGER_DECAY_ACTIVE_PER_MIN == 1
DECAY_INTERVAL_MS == 60000

\* The statics before Hunger::begin() runs.
HungerInitial == [hunger |-> 70, lastDecayMs |-> Zero32]

HungerStatics == [hunger |-> s_hunger, lastDecayMs |-> s_lastDecayMs]

\* Arduino random(howsmall, howbig): howsmall <= result < howbig.
RandomRange(howsmall, howbig) == howsmall .. howbig - 1

\* The same with howbig included.
FeedDrawsInclusive(isStable) ==
    IF isStable THEN HUNGER_STABLE_MAC_FEED - 2 .. HUNGER_STABLE_MAC_FEED + 3
    ELSE HUNGER_RAND_MAC_FEED - 1 .. HUNGER_RAND_MAC_FEED + 2

\* The points Hunger::feed can draw.
FeedDraws(isStable) ==
    IF isStable
    THEN RandomRange(HUNGER_STABLE_MAC_FEED - 2, HUNGER_STABLE_MAC_FEED + 3)
    ELSE RandomRange(HUNGER_RAND_MAC_FEED - 1, HUNGER_RAND_MAC_FEED + 2)

\* Hunger::begin at millis() = t.
HungerAfterBegin(initial, t) == [hunger |-> initial, lastDecayMs |-> t]

\* Hunger::feed with the draw points: the sum is an int, the result a uint8_t.
HungerAfterFeed(h, points) == Min(h.hunger + points, HUNGER_MAX) % 256

\* Hunger::update with the subtraction left to wrap in the uint8_t.
HungerAfterUpdateUnfloored(h, t, motion) ==
    IF Lt32(Sub32(t, h.lastDecayMs), U32(DECAY_INTERVAL_MS))
    THEN [hunger |-> h.hunger, lastDecayMs |-> h.lastDecayMs, applied |-> FALSE]
    ELSE LET decay == IF motion = "STATIONARY" THEN HUNGER_DECAY_IDLE_PER_MIN
                      ELSE HUNGER_DECAY_ACTIVE_PER_MIN
         IN  [hunger |-> (h.hunger - decay) % 256, lastDecayMs |-> t,
              applied |-> TRUE]

\* Hunger::update comparing millis() with an absolute deadline.
HungerAfterUpdateByDeadline(h, t, motion) ==
    IF Lt32(t, Add32(h.lastDecayMs, U32(DECAY_INTERVAL_MS)))
    THEN [hunger |-> h.hunger, lastDecayMs |-> h.lastDecayMs, applied |-> FALSE]
    ELSE LET decay == IF motion = "STATIONARY" THEN HUNGER_DECAY_IDLE_PER_MIN
                      ELSE HUNGER_DECAY_ACTIVE_PER_MIN
         IN  [hunger |-> IF h.hunger > decay THEN h.hunger - decay ELSE 0,
              lastDecayMs |-> t, applied |-> TRUE]

\* Hunger::update at millis() = t; applied tells whether it got past the
\* early return.
HungerAfterUpdate(h, t, motion) ==
    IF Lt32(Sub32(t, h.lastDecayMs), U32(DECAY_INTERVAL_MS))
    THEN [hunger |-> h.hunger, lastDecayMs |-> h.lastDecayMs, applied |-> FALSE]
    ELSE LET decay == IF motion = "STATIONARY" THEN HUNGER_DECAY_IDLE_PER_MIN
                      ELSE HUNGER_DECAY_ACTIVE_PER_MIN
         IN  [hunger |-> IF h.hunger > decay THEN h.hunger - decay ELSE 0,
              lastDecayMs |-> t, applied |-> TRUE]

\* Hunger::set.
HungerAfterSet(v) == Min(v, HUNGER_MAX)

\* Hunger::get.
HungerGet == s_hunger

\* Bytes begin() is handed, the persisted ones above HUNGER_MAX included.
BeginInputs == {0, 1, 70, HUNGER_MAX, HUNGER_MAX + 1}

\* Bytes set() is handed.
SetInputs == {0, HUNGER_MAX, HUNGER_MAX + 1, 255}

\* Clock values the Hunger calls are made at: either side of one decay
\* interval from 0, and from 30000 ms before the counter wraps.
HungerClock ==
    U32Set({0, DECAY_INTERVAL_MS - 1, DECAY_INTERVAL_MS,
            DECAY_INTERVAL_MS \div 2 - 1, DECAY_INTERVAL_MS \div 2})
        \cup {<<W16 - 1, W16 - DECAY_INTERVAL_MS \div 2>>}

\* x + d saturating at the decay interval, for a 32-bit duration d.
SatAddDecay(x, d) ==
    IF d[1] >= 1 THEN DECAY_INTERVAL_MS
    ELSE Min(DECAY_INTERVAL_MS, x + ToInt(d))

\* What a Hunger call keeps of the state it found.
HungerSnapshot(arg, applied) ==
    [hunger |-> s_hunger, lastDecayMs |-> s_lastDecayMs,
     sinceDecay |-> sinceDecay, arg |-> arg, applied |-> applied]

NoHungerCall ==
    [hunger |-> 0, lastDecayMs |-> Zero32, sinceDecay |-> 0, arg |-> "",
     applied |-> FALSE]

HungerBegin ==
    \E initial \in BeginInputs :
        /\ s_hunger' = HungerAfterBegin(initial, now).hunger
        /\ s_lastDecayMs' = HungerAfterBegin(initial, now).lastDecayMs
        /\ sinceDecay' = 0
        /\ hungerPrev' = HungerSnapshot("", FALSE)
        /\ lastOp' = "Hunger::begin"
        /\ UNCHANGED <<now, bloomVars, moodVars, deviceVars, bufferVars,
                       overrideVars,
                       motionVars, restoreVars, scanVars, buttonVars>>

HungerFeed ==
    \E isStable \in BOOLEAN :
        \E points \in FeedDraws(isStable) :
            /\ s_hunger' = HungerAfterFeed(HungerStatics, points)
            /\ hungerPrev' = HungerSnapshot(IF isStable THEN "stable" ELSE "random",
                                            FALSE)
            /\ lastOp' = "Hunger::feed"
            /\ UNCHANGED <<now, s_lastDecayMs, sinceDecay, bloomVars, moodVars,
                           deviceVars, bufferVars, overrideVars,
                       motionVars, restoreVars, scanVars, buttonVars>>

HungerUpdate ==
    \E motion \in MotionStates :
        LET after == HungerAfterUpdate(HungerStatics, now, motion) IN
        /\ s_hunger' = after.hunger
        /\ s_lastDecayMs' = after.lastDecayMs
        /\ sinceDecay' = IF after.applied THEN 0 ELSE sinceDecay
        /\ hungerPrev' = HungerSnapshot(motion, after.applied)
        /\ lastOp' = "Hunger::update"
        /\ UNCHANGED <<now, bloomVars, moodVars, deviceVars, bufferVars,
                       overrideVars,
                       motionVars, restoreVars, scanVars, buttonVars>>

HungerSet ==
    \E v \in SetInputs :
        /\ s_hunger' = HungerAfterSet(v)
        /\ hungerPrev' = HungerSnapshot("", FALSE)
        /\ lastOp' = "Hunger::set"
        /\ UNCHANGED <<now, s_lastDecayMs, sinceDecay, bloomVars, moodVars,
                       deviceVars, bufferVars, overrideVars,
                       motionVars, restoreVars, scanVars, buttonVars>>

\* millis() moves on between two Hunger calls.
HungerTick ==
    \E t \in HungerClock \ {now} :
        /\ now' = t
        /\ sinceDecay' = SatAddDecay(sinceDecay, Sub32(t, now))
        /\ hungerPrev' = NoHungerCall
        /\ lastOp' = "tick"
        /\ UNCHANGED <<s_hunger, s_lastDecayMs, bloomVars, moodVars, deviceVars,
                       bufferVars, overrideVars,
                       motionVars, restoreVars, scanVars, buttonVars>>

(***************************************************************************)
(* mac_buffer.h, mac_buffer.cpp: the MacBuffer object.  macBuf has static  *)
(* storage, so its slots start zeroed.                                     *)
(***************************************************************************)

NOVELTY_WINDOW_MS == 12 * 3600 * 1000

\* The number of slots: MAC_BUFFER_SIZE, 2000 in config.h, scaled down.
BufferSlots == 2

\* add() calls in one behaviour: one more than the slots.
MaxAdds == BufferSlots + 1

Slots == 0 .. BufferSlots - 1

EmptyEntry == [hash |-> Zero32, timestamp |-> Zero32, isStable |-> FALSE]

\* The object after construction.
BufferConstructed == [buf |-> [i \in Slots |-> EmptyEntry], head |-> 0, count |-> 0]

\* MacBuffer::isRecent with the window's far edge included.
IsRecentInclusive(ts, t) == Le32(Sub32(t, ts), U32(NOVELTY_WINDOW_MS))

\* MacBuffer::isRecent on the plain difference of the two counter values.
IsRecentUnwrapped(ts, t) ==
    /\ Le32(ts, t)
    /\ Lt32(Sub32(t, ts), U32(NOVELTY_WINDOW_MS))

\* MacBuffer::isRecent at millis() = t.
IsRecent(ts, t) == Lt32(Sub32(t, ts), U32(NOVELTY_WINDOW_MS))

\* MacBuffer::macHash: FNV-1a over the six octets.
MacHash(mac) == FnvFold(FnvOffset, mac, 1)

\* MacBuffer::add at millis() = t: the slots it leaves.
BufferAfterAdd(b, h, mac, isStable, t) ==
    [b EXCEPT ![h] = [hash |-> MacHash(mac), timestamp |-> t,
                      isStable |-> isStable]]

\* MacBuffer::countRecent at millis() = t.
CountRecent(b, stableOnly, t) ==
    Cardinality({i \in Slots :
                    /\ b[i].timestamp # Zero32
                    /\ ~(stableOnly /\ ~b[i].isStable)
                    /\ IsRecent(b[i].timestamp, t)})

\* MacBuffer::countBreakdown at millis() = t: the two reference results.
CountBreakdown(b, t) ==
    LET recent == {i \in Slots :
                      b[i].timestamp # Zero32 /\ IsRecent(b[i].timestamp, t)}
    IN  [stable |-> Cardinality({i \in recent : b[i].isStable}),
         random |-> Cardinality({i \in recent : ~b[i].isStable})]

\* MacBuffer::expire at millis() = t.
BufferAfterExpire(b, t) ==
    [i \in Slots |->
        IF b[i].timestamp # Zero32 /\ ~IsRecent(b[i].timestamp, t)
        THEN [b[i] EXCEPT !.timestamp = Zero32]
        ELSE b[i]]

\* What add() is handed: an OUI-registered address, stable, and a locally
\* administered one, not stable.
AddInputs == {<< <<0, 17, 34, 51, 68, 85>>, TRUE >>, << <<2, 0, 0, 0, 0, 1>>, FALSE >>}

\* Clock values the MacBuffer calls are made at: the counter's zero, 0x10,
\* one millisecond before and exactly one window after 0x10, and 0xFFFFFFF0.
BufferClock ==
    U32Set({0, 16, 16 + NOVELTY_WINDOW_MS - 1, 16 + NOVELTY_WINDOW_MS})
        \cup {<<W16 - 1, W16 - 16>>}

\* x + d saturating at the window, for a 32-bit duration d.
SatAddWindow(x, d) ==
    IF d[1] > NOVELTY_WINDOW_MS \div W16 THEN NOVELTY_WINDOW_MS
    ELSE Min(NOVELTY_WINDOW_MS, x + ToInt(d))

NoCount == [stableOnly |-> FALSE, n |-> 0, stable |-> 0, random |-> 0]

\* What the history keeps of an entry once BufferSlots later ones exist.
Overwritten == [hash |-> Zero32, timestamp |-> Zero32, isStable |-> FALSE, age |-> 0]

\* The history after one more add(): the entry is appended and the one whose
\* slot it takes is forgotten.
Recorded(history, entry) ==
    [k \in 1 .. Len(history) + 1 |->
        IF k = Len(history) + 1 THEN entry
        ELSE IF k > Len(history) + 1 - BufferSlots THEN history[k]
        ELSE Overwritten]

\* add(): millis() reads 0 only once the counter has wrapped, hence after an
\* earlier add.
BufAdd ==
    \E in \in AddInputs :
        /\ count < MaxAdds
        /\ now # Zero32 \/ count > 0
        /\ buf' = BufferAfterAdd(buf, head, in[1], in[2], now)
        /\ head' = (head + 1) % BufferSlots
        /\ count' = count + 1
        /\ bufHistory' = Recorded(bufHistory,
                                  [hash |-> MacHash(in[1]), timestamp |-> now,
                                   isStable |-> in[2], age |-> 0])
        /\ bufRet' = NoCount
        /\ lastOp' = "MacBuffer::add"
        /\ UNCHANGED <<now, bloomVars, moodVars, deviceVars, hungerVars,
                       overrideVars,
                       motionVars, restoreVars, scanVars, buttonVars>>

BufCountRecent ==
    \E stableOnly \in BOOLEAN :
        /\ bufRet' = [NoCount EXCEPT !.stableOnly = stableOnly,
                                      !.n = CountRecent(buf, stableOnly, now)]
        /\ lastOp' = "MacBuffer::countRecent"
        /\ UNCHANGED <<now, buf, head, count, bufHistory, bloomVars, moodVars,
                       deviceVars, hungerVars, overrideVars,
                       motionVars, restoreVars, scanVars, buttonVars>>

BufCountBreakdown ==
    /\ bufRet' = [NoCount EXCEPT !.stable = CountBreakdown(buf, now).stable,
                                  !.random = CountBreakdown(buf, now).random]
    /\ lastOp' = "MacBuffer::countBreakdown"
    /\ UNCHANGED <<now, buf, head, count, bufHistory, bloomVars, moodVars,
                   deviceVars, hungerVars, overrideVars,
                       motionVars, restoreVars, scanVars, buttonVars>>

BufExpire ==
    /\ buf' = BufferAfterExpire(buf, now)
    /\ bufRet' = NoCount
    /\ lastOp' = "MacBuffer::expire"
    /\ UNCHANGED <<now, head, count, bufHistory, bloomVars, moodVars, deviceVars,
                   hungerVars, overrideVars,
                       motionVars, restoreVars, scanVars, buttonVars>>

\* millis() moves on between two MacBuffer calls; every recorded entry ages.
BufTick ==
    \E t \in BufferClock \ {now} :
        /\ now' = t
        /\ bufHistory' = [k \in DOMAIN bufHistory |->
                            IF bufHistory[k] = Overwritten THEN Overwritten
                            ELSE [bufHistory[k] EXCEPT
                                    !.age = SatAddWindow(@, Sub32(t, now))]]
        /\ bufRet' = NoCount
        /\ lastOp' = "tick"
        /\ UNCHANGED <<buf, head, count, bloomVars, moodVars, deviceVars,
                       hungerVars, overrideVars,
                       motionVars, restoreVars, scanVars, buttonVars>>

(***************************************************************************)
(* main.cpp: setup(), loop() and power cycles.  Of the loop's work this    *)
(* covers the phase machine, the scan schedule and every write to the      *)
(* calibration record; the display, button, motion, hunger and mood calls  *)
(* touch none of these variables.                                          *)
(***************************************************************************)

BLE_SCAN_NORMAL_INTERVAL_S == 90
BLE_SCAN_HUNGRY_INTERVAL_S == 60
BLE_SCAN_DURATION_S == 9
FLUSH_SCANS == 10

\* BleScanner::scan blocks for the scan duration.
ScanMs == BLE_SCAN_DURATION_S * 1000

\* runMpuCalibration blocks for delay(500) and 200 samples 20 ms apart.
MpuCalMs == 500 + 200 * 20

\* millis() when setup() reads the store and calls Calibration::begin().
SetupMs == 200

\* Power cycles in one behaviour.
MaxBoots == 1

\* The identity counters stop here.
MaxMacs == 100

\* What one scan reports: <<newStable, newRandom>>.
NoNewMacs == <<0, 0>>
ScanResults == {NoNewMacs, <<24, 25>>, <<25, 25>>}

\* Clock values the loop is observed at: once the first scan is due, and one
\* millisecond before and exactly 48 h after a start timestamp of
\* SetupMs + MpuCalMs.
DeviceClock ==
    U32Set({100000,
            SetupMs + MpuCalMs + CALIBRATION_DURATION_MS - 1,
            SetupMs + MpuCalMs + CALIBRATION_DURATION_MS})

\* x + d saturating at 48 h, for a 32-bit duration d.
SatAdd(x, d) ==
    IF d[1] >= 4096 THEN CALIBRATION_DURATION_MS
    ELSE Min(CALIBRATION_DURATION_MS, x + ToInt(d))

\* The history of true elapsed time: zero until cal_start is persisted.
TimePasses(d, nvsAfter) ==
    sinceStart' = IF nvs.cal_start = Zero32 \/ nvsAfter.cal_start = Zero32 THEN 0
                  ELSE SatAdd(sinceStart, d)

\* now - s_lastScanMs >= interval, in uint32_t arithmetic.
ScanDue(t, intervalMs) == ~Lt32(Sub32(t, s_lastScanMs), U32(intervalMs))

\* RAM after power-on, before setup() runs.
MainInitial ==
    [appState |-> "MPU_CALIBRATION", lastScanMs |-> Zero32,
     scanInterval |-> BLE_SCAN_NORMAL_INTERVAL_S * 1000, macTotal |-> 0,
     scansSinceFlush |-> 0]

(***************************************************************************)
(* Motion (motion.cpp)                                                     *)
(***************************************************************************)

HISTORY == 16
SHAKE_THRESHOLD == 2500
CARRIED_VARIANCE == 800
TRANSIT_VARIANCE == 200

\* The magnitude of 1 g in raw units, the literal update() subtracts.
BaselineMagnitude == 16384

\* The largest value of a long, 32 bits wide on the ESP32.
LongMax == 32767 * W16 + 65535

\* The statics after power-on.
MotionInitial ==
    [state |-> "STATIONARY", accelMag |-> 0,
     magHistory |-> [i \in 0 .. HISTORY - 1 |-> 0], histIdx |-> 0]

Abs(x) == IF x < 0 THEN 0 - x ELSE x

\* abs(deviation) > SHAKE_THRESHOLD
IsShake(mag) == Abs(mag - BaselineMagnitude) > SHAKE_THRESHOLD

\* update() returning on a shake before it stores the sample.
MagHistoryAfterShakeSkipped(h, idx, mag) ==
    IF IsShake(mag) THEN h ELSE [h EXCEPT ![idx] = mag]

\* s_magHistory[s_histIdx] = mag
MagHistoryAfter(h, idx, mag) == [h EXCEPT ![idx] = mag]

RECURSIVE SumUpTo(_, _)
SumUpTo(h, n) == IF n = 0 THEN 0 ELSE h[n - 1] + SumUpTo(h, n - 1)

\* mean: the sum of the history divided by HISTORY, truncated.
Mean(h) == SumUpTo(h, HISTORY) \div HISTORY

\* d * d does not fit a long.
SquareOverflows(d) == d # 0 /\ Abs(d) > LongMax \div Abs(d)

\* The loop "variance += d * d" from index i on, in long arithmetic: the sum,
\* or the fact that a product or the sum left the range of long.
RECURSIVE SumSquares(_, _, _, _)
SumSquares(h, mean, i, acc) ==
    IF i = HISTORY
    THEN [overflow |-> FALSE, value |-> acc]
    ELSE LET d == h[i] - mean
         IN  IF SquareOverflows(d) \/ d * d > LongMax - acc
             THEN [overflow |-> TRUE, value |-> 0]
             ELSE SumSquares(h, mean, i + 1, acc + d * d)

\* variance /= HISTORY
Variance(h) ==
    LET s == SumSquares(h, Mean(h), 0, 0)
    IN  [overflow |-> s.overflow, value |-> s.value \div HISTORY]

\* The three-way comparison at the end of update().
Classify(variance) ==
    IF variance > CARRIED_VARIANCE * CARRIED_VARIANCE THEN "CARRIED"
    ELSE IF variance > TRANSIT_VARIANCE * TRANSIT_VARIANCE THEN "IN_TRANSIT"
    ELSE "STATIONARY"

\* The states the variance comparison can assign.
VarianceStates == {"STATIONARY", "IN_TRANSIT", "CARRIED"}

\* update() leaving a SHAKEN state in place until the next shake.
StateAfterUpdateHoldingShake(prev, h, mag) ==
    IF IsShake(mag) \/ prev = "SHAKEN" THEN {"SHAKEN"}
    ELSE LET v == Variance(h)
         IN  IF v.overflow THEN VarianceStates ELSE {Classify(v.value)}

\* The states update() can leave in s_state, h being the history with the
\* sample stored.  Signed overflow in the variance loop is undefined: the
\* comparison then sees an arbitrary long.
StateAfterUpdate(prev, h, mag) ==
    IF IsShake(mag) THEN {"SHAKEN"}
    ELSE LET v == Variance(h)
         IN  IF v.overflow THEN VarianceStates ELSE {Classify(v.value)}

\* Magnitudes the sensor reports: rest, the largest deviation that is not a
\* shake, the smallest one that is, and a hard shake.
Magnitudes ==
    { BaselineMagnitude,
      BaselineMagnitude + SHAKE_THRESHOLD,
      BaselineMagnitude - SHAKE_THRESHOLD - 1,
      50000 }

\* At most this many samples in the history differ from the baseline.
MaxOddSamples == 2

OddSamples(h) ==
    Cardinality({i \in 0 .. HISTORY - 1 : h[i] \notin {0, BaselineMagnitude}})

\* Motion::update
MotionUpdate ==
    \E mag \in Magnitudes :
        LET h == MagHistoryAfter(s_magHistory, s_histIdx, mag)
        IN  /\ OddSamples(h) <= MaxOddSamples
            /\ s_accelMag' = mag
            /\ s_magHistory' = h
            /\ s_histIdx' = (s_histIdx + 1) % HISTORY
            /\ \E st \in StateAfterUpdate(s_state, h, mag) : s_state' = st
            /\ baselineRun' = IF mag = BaselineMagnitude
                              THEN Min(baselineRun + 1, HISTORY) ELSE 0
            /\ motionTicks' = Min(motionTicks + 1, HISTORY)
            /\ lastOddMag' = IF mag = BaselineMagnitude THEN lastOddMag ELSE mag
            /\ lastOp' = "Motion::update"
            /\ UNCHANGED <<now, bloomVars, moodVars, deviceVars, hungerVars,
                           bufferVars, overrideVars, restoreVars, scanVars, buttonVars>>

\* Power-on: the statics take their initial values.
MotionPowerOn ==
    /\ motionTicks > 0
    /\ s_state' = MotionInitial.state
    /\ s_accelMag' = MotionInitial.accelMag
    /\ s_magHistory' = MotionInitial.magHistory
    /\ s_histIdx' = MotionInitial.histIdx
    /\ baselineRun' = 0
    /\ motionTicks' = 0
    /\ lastOddMag' = 0
    /\ lastOp' = "Motion power-on"
    /\ UNCHANGED <<now, bloomVars, moodVars, deviceVars, hungerVars,
                   bufferVars, overrideVars, restoreVars, scanVars, buttonVars>>

(***************************************************************************)
(* BloomFilter persistence                                                 *)
(***************************************************************************)

\* No bytes have been taken from a filter yet.
NoBlob == [len |-> 0, bytes |-> {}, bitSize |-> 0, numHash |-> 0, bits |-> {}]

\* loadFrom has not been called.
NoLoad == [len |-> 0, result |-> FALSE]

\* The value of byte j of the array: bit b of the filter is bit b % 8 of
\* byte b / 8 (add and contains, "_bits[bit / 8]" and "1 << (bit % 8)").
ByteOf(bitset, j) ==
    LET B(i) == IF 8 * j + i \in bitset THEN 2 ^ i ELSE 0
    IN  B(0) + B(1) + B(2) + B(3) + B(4) + B(5) + B(6) + B(7)

\* data(): the byte array, written as the set of its non-zero bytes
\* <<index, value>>.
Data(bitset) == {<<j, ByteOf(bitset, j)>> : j \in {b \div 8 : b \in bitset}}

\* The first n bytes read with the most significant bit of a byte first.
BitsOfBytesMsbFirst(bytes, n) ==
    UNION { {8 * p[1] + i : i \in {i \in 0 .. 7 : (p[2] \div 2 ^ (7 - i)) % 2 = 1}}
            : p \in {q \in bytes : q[1] < n} }

\* The bits set in the first n bytes of a byte array.
BitsOfBytes(bytes, n) ==
    UNION { {8 * p[1] + i : i \in {i \in 0 .. 7 : (p[2] \div 2 ^ i) % 2 = 1}}
            : p \in {q \in bytes : q[1] < n} }

\* Storage::saveBloom(bloom.data(), bloom.byteSize()): the bytes kept, and as
\* history the filter they were taken from.
Serialized ==
    [len |-> byteSize, bytes |-> Data(bits),
     bitSize |-> bitSize, numHash |-> numHash, bits |-> bits]

\* Storage::loadBloom(data, maxLen): Preferences::getBytes returns the stored
\* length, or 0 when nothing is stored or the buffer is too small.
LoadBloom(b, maxLen) ==
    IF maxLen = 0 THEN b.len ELSE IF b.len > maxLen THEN 0 ELSE b.len

\* loadFrom without the length test.
LoadFromAcceptsAnyLength(len, size, null) == ~null

\* loadFrom copies: "len != _byteSize || !_bits" is false.
LoadFromAccepts(len, size, null) == len = size /\ ~null

\* BloomFilter::loadFrom(src, len), src holding the bytes of blob.
BloomLoadFrom(len) ==
    /\ loadRet' = [len |-> len, result |-> LoadFromAccepts(len, byteSize, bitsNull)]
    /\ bits' = IF LoadFromAccepts(len, byteSize, bitsNull)
               THEN BitsOfBytes(blob.bytes, byteSize) ELSE bits
    /\ bitsBefore' = bits
    /\ UNCHANGED <<bitsNull, byteSize, bitSize, numHash, bloomAdded, bloomRet>>

\* BloomFilter::reset
BloomReset ==
    /\ bits' = {}
    /\ bitsBefore' = bits
    /\ UNCHANGED <<bitsNull, byteSize, bitSize, numHash, bloomAdded, bloomRet>>

\* hash() divides by _bitSize: with _bitSize = 0 the first probe of add or
\* contains is a division by zero, which ends the run like the null
\* dereference does.
HashFaults == numHash > 0 /\ (bitSize = 0 \/ bitsNull)

\* Arguments of begin for which no filter can be sized: fpRate 1.0 gives
\* m = 0 and k = 0, raised to 1; capacity 0 gives m = 0 and k = 0 / 0, whose
\* conversion to uint8_t is undefined and ends in 1 .. 20 after the clamps.
UnsizableConfigs ==
    {[capacity |-> 10000, fpPercent |-> 100, m |-> 0, k |-> 1]}
        \cup {[capacity |-> 0, fpPercent |-> 1, m |-> 0, k |-> k] : k \in 1 .. 20}

\* The arguments begin is called with.
SizingCases == BloomConfigs \cup UnsizableConfigs

\* The identities offered to the filter while its bytes are saved and
\* restored.
RestoreMacs == {<<0, 0, 0, 0, 0, 1>>, <<170, 187, 204, 221, 238, 255>>}

\* No identity has been counted as new.
NoneCounted == [mac \in RestoreMacs |-> 0]

\* setup(), main.cpp:281-291, on the filter as constructed at power-on:
\* begin, whose result is not looked at, then the attempt to restore the
\* persisted bytes into it.
SetupBloom(cfg, allocOk, tmpOk) ==
    LET size == (cfg.m + 7) \div 8
        loaded == LoadBloom(blob, size)
        called == tmpOk /\ loaded = size
    IN  /\ bitSize' = cfg.m
        /\ byteSize' = size
        /\ numHash' = cfg.k
        /\ bitsNull' = ~allocOk
        /\ bits' = IF called /\ LoadFromAccepts(loaded, size, ~allocOk)
                   THEN BitsOfBytes(blob.bytes, size) ELSE {}
        /\ loadRet' = IF called
                      THEN [len |-> loaded,
                            result |-> LoadFromAccepts(loaded, size, ~allocOk)]
                      ELSE NoLoad
        /\ bloomAdded' = {}
        /\ bloomRet' = [mac |-> <<>>, result |-> FALSE]
        /\ bitsBefore' = {}

\* A BloomFilter is constructed and begin called on it.
RestoreBegin(cfg, allocOk) ==
    /\ lastOp # "begin"
    /\ bitSize' = cfg.m
    /\ byteSize' = (cfg.m + 7) \div 8
    /\ numHash' = cfg.k
    /\ bitsNull' = ~allocOk
    /\ bits' = {}
    /\ bloomAdded' = {}
    /\ bloomRet' = [mac |-> <<>>, result |-> FALSE]
    /\ bitsBefore' = {}
    /\ lastOp' = "begin"
    /\ UNCHANGED <<now, moodVars, deviceVars, hungerVars, bufferVars,
                   overrideVars, motionVars, restoreVars, scanVars, buttonVars>>

RestoreAdd(mac) ==
    /\ numHash > 0
    /\ IF HashFaults THEN BloomFault ELSE BloomAdd(mac)
    /\ lastOp' = IF HashFaults THEN "fault" ELSE "add"
    /\ UNCHANGED <<now, moodVars, deviceVars, hungerVars, bufferVars,
                   overrideVars, motionVars, restoreVars, scanVars, buttonVars>>

RestoreReset ==
    /\ ~bitsNull
    /\ BloomReset
    /\ lastOp' = "reset"
    /\ UNCHANGED <<now, moodVars, deviceVars, hungerVars, bufferVars,
                   overrideVars, motionVars, restoreVars, scanVars, buttonVars>>

\* The bytes of a configured filter are taken and stored.
RestoreSave ==
    /\ ~bitsNull
    /\ blob' = Serialized
    /\ lastOp' = "save"
    /\ UNCHANGED <<now, bloomVars, moodVars, deviceVars, hungerVars,
                   bufferVars, overrideVars, motionVars, loadRet, scanVars, buttonVars>>

\* loadFrom is called with the stored bytes and their length.
RestoreLoadFrom ==
    /\ blob # NoBlob
    /\ numHash > 0
    /\ BloomLoadFrom(blob.len)
    /\ lastOp' = "loadFrom"
    /\ UNCHANGED <<now, moodVars, deviceVars, hungerVars, bufferVars,
                   overrideVars, motionVars, blob, scanVars, buttonVars>>

\* Power-on and setup() up to main.cpp:291.
RestoreSetup(cfg, allocOk, tmpOk) ==
    /\ SetupBloom(cfg, allocOk, tmpOk)
    /\ lastOp' = "setup"
    /\ UNCHANGED <<now, moodVars, deviceVars, hungerVars, bufferVars,
                   overrideVars, motionVars, blob, scanVars, buttonVars>>

\* The sizes of the filter main.cpp configures: begin(BLOOM_CAPACITY,
\* BLOOM_FP_RATE).
MainConfig == CHOOSE cfg \in BloomConfigs : cfg.capacity = 10000

\* setup(): the filter is configured and restored, the scanner is handed the
\* filter, and setup() returns into loop() whatever begin returned.
StartupSetup(allocOk, tmpOk) ==
    /\ pc = "setup"
    /\ SetupBloom(MainConfig, allocOk, tmpOk)
    /\ pc' = "loop"
    /\ scansSinceFlush' = 0
    /\ lastOp' = "setup"
    /\ now' = U32(SetupMs)
    /\ buf' = BufferConstructed.buf
    /\ head' = BufferConstructed.head
    /\ count' = BufferConstructed.count
    /\ bufHistory' = <<>>
    /\ bufRet' = NoCount
    /\ s_newStable' = 0
    /\ s_newRandom' = 0
    /\ newCounted' = NoneCounted
    /\ UNCHANGED <<moodVars, nvs, calVars, histVars, appState,
                   s_lastScanMs, s_scanInterval, s_macTotal, hungerVars,
                   overrideVars, motionVars, blob, buttonVars>>

\* BleScanner::isRandomised: the locally administered bit of the first octet.
IsRandomised(mac) == (mac[1] \div 2) % 2 = 1

\* The callback that takes every advertisement for a new device.
SeenBeforeIgnoringFilter(mac) == FALSE

\* The test of MacCallback::onResult: s_bloom->contains(mac).
SeenBefore(mac) == Contains(mac)

\* MacCallback::onResult for one advertisement during a scan started from
\* loop(): contains, and for a device not seen before add to the filter and
\* to the MacBuffer and count it in its class.  On the filter left
\* unconfigured the first probe faults and the device restarts.
StartupOnResult(mac) ==
    /\ pc = "loop"
    /\ IF HashFaults
       THEN /\ BloomFault
            /\ pc' = "setup"
            /\ scansSinceFlush' = 0
            /\ lastOp' = "fault"
            /\ UNCHANGED <<bufferVars, scanVars>>
       ELSE /\ lastOp' = "onResult"
            /\ UNCHANGED <<pc, scansSinceFlush>>
            /\ IF SeenBefore(mac)
               THEN /\ BloomContains(mac)
                    /\ UNCHANGED <<bufferVars, scanVars>>
               ELSE /\ BloomAdd(mac)
                    /\ buf' = BufferAfterAdd(buf, head, mac, ~IsRandomised(mac), now)
                    /\ head' = (head + 1) % BufferSlots
                    /\ count' = count + 1
                    /\ bufHistory' = Recorded(bufHistory,
                                       [hash |-> MacHash(mac), timestamp |-> now,
                                        isStable |-> ~IsRandomised(mac), age |-> 0])
                    /\ bufRet' = NoCount
                    /\ s_newRandom' = s_newRandom + (IF IsRandomised(mac) THEN 1 ELSE 0)
                    /\ s_newStable' = s_newStable + (IF IsRandomised(mac) THEN 0 ELSE 1)
                    /\ newCounted' = [newCounted EXCEPT ![mac] = @ + 1]
    /\ UNCHANGED <<now, moodVars, nvs, calVars, histVars, appState,
                   s_lastScanMs, s_scanInterval, s_macTotal, hungerVars,
                   overrideVars, motionVars, restoreVars, buttonVars>>

\* BleScanner::scan has returned its counts to doScan(), which stores the
\* filter's bytes every FLUSH_SCANS scans; the next scan() starts its counts
\* from zero.
StartupScanDone ==
    /\ pc = "loop"
    /\ scansSinceFlush' = IF scansSinceFlush + 1 >= FLUSH_SCANS
                          THEN 0 ELSE scansSinceFlush + 1
    /\ blob' = IF scansSinceFlush + 1 >= FLUSH_SCANS /\ ~bitsNull
               THEN Serialized ELSE blob
    /\ lastOp' = "doScan"
    /\ s_newStable' = 0
    /\ s_newRandom' = 0
    /\ UNCHANGED <<now, bloomVars, moodVars, nvs, calVars, histVars, pc,
                   appState, s_lastScanMs, s_scanInterval, s_macTotal,
                   hungerVars, bufferVars, overrideVars, motionVars, loadRet,
                   newCounted, buttonVars>>

\* The device is switched off and on: RAM is lost, the stored bytes stay.
StartupPowerCycle ==
    /\ pc = "loop"
    /\ BloomFault
    /\ pc' = "setup"
    /\ scansSinceFlush' = 0
    /\ lastOp' = "power-on"
    /\ UNCHANGED <<now, moodVars, nvs, calVars, histVars, appState,
                   s_lastScanMs, s_scanInterval, s_macTotal, hungerVars,
                   bufferVars, overrideVars, motionVars, restoreVars, scanVars, buttonVars>>

(***************************************************************************)
(* Buttons (storage.cpp): BtnState s_btn1, s_btn2, s_bothPressedAt and     *)
(* s_bothHoldFired.  poll() reads the two pins and millis().               *)
(***************************************************************************)

BTN_HOLD_SHORT_MS == 2000
BTN_HOLD_DIAG_MS == 10000
BTN_DEBOUNCE_MS == 50

\* BtnState as constructed.
BtnInitial ==
    [pressed |-> FALSE, prevRaw |-> FALSE, pressedAt |-> Zero32,
     holdFired |-> FALSE]

\* poll() calls are separated by one of these times.
PollGaps == {25, 1975, 10000}

\* Clock advances in one behaviour of the buttons.
MaxButtonTicks == 2

\* The edge tracking of one button: a press edge stamps the press.
BtnEdge(b, raw, t) ==
    IF raw = b.prevRaw THEN b
    ELSE IF raw
    THEN [pressed |-> FALSE, prevRaw |-> raw, pressedAt |-> t, holdFired |-> FALSE]
    ELSE [b EXCEPT !.prevRaw = raw]

\* The two blocks of poll() for one button: the event on release, then the
\* hold while still pressed.  event "NONE" means poll() goes on.
BtnSingle(b, raw, t, short, hold) ==
    LET released == ~raw /\ b.pressedAt # Zero32 /\ ~b.pressed
        held     == Sub32(t, b.pressedAt)
        r        == IF released
                    THEN [b EXCEPT !.pressed = TRUE, !.pressedAt = Zero32]
                    ELSE b
    IN  IF released /\ ~Lt32(held, U32(BTN_HOLD_SHORT_MS))
        THEN [btn |-> r, event |-> hold]
        ELSE IF released /\ ~Lt32(held, U32(BTN_DEBOUNCE_MS))
        THEN [btn |-> r, event |-> short]
        ELSE IF /\ raw /\ ~r.holdFired /\ r.pressedAt # Zero32
                /\ ~Lt32(Sub32(t, r.pressedAt), U32(BTN_HOLD_SHORT_MS))
        THEN [btn |-> [r EXCEPT !.holdFired = TRUE], event |-> hold]
        ELSE [btn |-> r, event |-> "NONE"]

\* The flag reset at the end of poll().
BtnReleased(b, raw) == IF raw THEN b ELSE [b EXCEPT !.pressed = FALSE]

\* Buttons::poll() at millis() = t with pin readings raw1 and raw2: the
\* statics it leaves and the event it returns.
Poll(raw1, raw2, t) ==
    LET e1 == BtnEdge(s_btn1, raw1, t)
        e2 == BtnEdge(s_btn2, raw2, t)
        o1 == BtnSingle(e1, raw1, t, "BTN1_SHORT", "BTN1_HOLD")
        o2 == BtnSingle(e2, raw2, t, "BTN2_SHORT", "BTN2_HOLD")
    IN  IF raw1 /\ raw2
        THEN IF s_bothPressedAt = Zero32
             THEN [btn1 |-> e1, btn2 |-> e2, bothPressedAt |-> t,
                   bothHoldFired |-> FALSE, event |-> "NONE"]
             ELSE IF /\ ~s_bothHoldFired
                     /\ ~Lt32(Sub32(t, s_bothPressedAt), U32(BTN_HOLD_DIAG_MS))
             THEN [btn1 |-> e1, btn2 |-> e2, bothPressedAt |-> s_bothPressedAt,
                   bothHoldFired |-> TRUE, event |-> "BOTH_HOLD_LONG"]
             ELSE [btn1 |-> e1, btn2 |-> e2, bothPressedAt |-> s_bothPressedAt,
                   bothHoldFired |-> s_bothHoldFired, event |-> "NONE"]
        ELSE IF o1.event # "NONE"
        THEN [btn1 |-> o1.btn, btn2 |-> e2, bothPressedAt |-> Zero32,
              bothHoldFired |-> s_bothHoldFired, event |-> o1.event]
        ELSE IF o2.event # "NONE"
        THEN [btn1 |-> o1.btn, btn2 |-> o2.btn, bothPressedAt |-> Zero32,
              bothHoldFired |-> s_bothHoldFired, event |-> o2.event]
        ELSE [btn1 |-> BtnReleased(o1.btn, raw1), btn2 |-> BtnReleased(o2.btn, raw2),
              bothPressedAt |-> Zero32, bothHoldFired |-> s_bothHoldFired,
              event |-> "NONE"]

\* The buttons a poll() finds down.
ShapeOf(raw1, raw2) ==
    IF raw1 /\ raw2 THEN "both"
    ELSE IF raw1 THEN "one1"
    ELSE IF raw2 THEN "one2"
    ELSE "idle"

\* A gesture is under way: the last poll() found a button down.
GestureUnderWay == s_btn1.prevRaw \/ s_btn2.prevRaw

\* Buttons::begin() in setup().
ButtonsBegin ==
    /\ lastOp = "init"
    /\ now' = U32(SetupMs)
    /\ lastOp' = "Buttons::begin"
    /\ UNCHANGED <<bloomVars, moodVars, deviceVars, hungerVars, bufferVars,
                   overrideVars, motionVars, restoreVars, scanVars, buttonVars>>

\* One call of Buttons::poll() from loop().  A gesture starts when a poll
\* finds a button down after one that found none; its shape is the buttons
\* found down, "mixed" once that set has changed other than by releasing all,
\* or when it starts before a poll of the released buttons has returned NONE.
ButtonsPoll(raw1, raw2) ==
    LET p      == Poll(raw1, raw2, now)
        shape  == ShapeOf(raw1, raw2)
        starts == ~GestureUnderWay /\ shape # "idle"
        sofar  == IF starts THEN <<>> ELSE gEvents
    IN  /\ lastOp # "init"
        /\ s_btn1' = p.btn1
        /\ s_btn2' = p.btn2
        /\ s_bothPressedAt' = p.bothPressedAt
        /\ s_bothHoldFired' = p.bothHoldFired
        /\ btnEvent' = p.event
        /\ gEvents' = IF p.event = "NONE" THEN sofar ELSE Append(sofar, p.event)
        /\ gShape' = IF starts THEN (IF btnEvent = "NONE" THEN shape ELSE "mixed")
                     ELSE IF GestureUnderWay /\ shape \notin {gShape, "idle"}
                     THEN "mixed"
                     ELSE gShape
        /\ gHeld' = IF starts THEN 0 ELSE gHeld
        /\ gSeen' = IF starts THEN 0
                    ELSE IF GestureUnderWay /\ shape # "idle" THEN gHeld
                    ELSE gSeen
        /\ lastOp' = "Buttons::poll"
        /\ UNCHANGED <<now, btnTicks, bloomVars, moodVars, deviceVars, hungerVars,
                       bufferVars, overrideVars, motionVars, restoreVars,
                       scanVars>>

\* Time passes between two poll() calls.
ButtonsTick(d) ==
    /\ lastOp # "init"
    /\ btnTicks < MaxButtonTicks
    /\ btnTicks' = btnTicks + 1
    /\ now' = Add32(now, U32(d))
    /\ gHeld' = IF GestureUnderWay THEN Min(gHeld + d, BTN_HOLD_DIAG_MS) ELSE gHeld
    /\ lastOp' = "tick"
    /\ UNCHANGED <<s_btn1, s_btn2, s_bothPressedAt, s_bothHoldFired, btnEvent,
                   gEvents, gShape, gSeen, bloomVars, moodVars, deviceVars, hungerVars,
                   bufferVars, overrideVars, motionVars, restoreVars, scanVars>>

Init ==
    /\ now = Zero32
    /\ lastOp = "init"
    /\ BloomConstructed
    /\ s_mood = MoodInitial.mood
    /\ s_transient = MoodInitial.transient
    /\ s_inTransient = MoodInitial.inTransient
    /\ s_transientEnd = MoodInitial.transientEnd
    /\ lastArgs = NoArgs
    /\ nvs = NvsEmpty
    /\ s_startMs = CalInitial.startMs
    /\ s_macCount = CalInitial.macCount
    /\ s_stableCount = CalInitial.stableCount
    /\ s_randCount = CalInitial.randCount
    /\ s_randRatio = CalInitial.randRatio
    /\ pc = "setup"
    /\ appState = MainInitial.appState
    /\ s_lastScanMs = MainInitial.lastScanMs
    /\ s_scanInterval = MainInitial.scanInterval
    /\ s_macTotal = MainInitial.macTotal
    /\ scansSinceFlush = MainInitial.scansSinceFlush
    /\ boots = 0
    /\ sinceStart = 0
    /\ startWrites = 0
    /\ beginCalls = 0
    /\ everHatched = FALSE
    /\ wrapped = FALSE
    /\ s_hunger = HungerInitial.hunger
    /\ s_lastDecayMs = HungerInitial.lastDecayMs
    /\ sinceDecay = 0
    /\ hungerPrev = NoHungerCall
    /\ buf = BufferConstructed.buf
    /\ head = BufferConstructed.head
    /\ count = BufferConstructed.count
    /\ bufHistory = <<>>
    /\ bufRet = NoCount
    /\ ovBy = "none"
    /\ ovAge = 0
    /\ ovDur = 0
    /\ ovMood = "CALM"
    /\ unforced = MoodInitial.mood
    /\ moodRet = NoGetCurrent
    /\ s_state = MotionInitial.state
    /\ s_accelMag = MotionInitial.accelMag
    /\ s_magHistory = MotionInitial.magHistory
    /\ s_histIdx = MotionInitial.histIdx
    /\ baselineRun = 0
    /\ motionTicks = 0
    /\ lastOddMag = 0
    /\ blob = NoBlob
    /\ loadRet = NoLoad
    /\ s_newStable = 0
    /\ s_newRandom = 0
    /\ newCounted = NoneCounted
    /\ s_btn1 = BtnInitial
    /\ s_btn2 = BtnInitial
    /\ s_bothPressedAt = Zero32
    /\ s_bothHoldFired = FALSE
    /\ btnEvent = "NONE"
    /\ btnTicks = 0
    /\ gShape = "idle"
    /\ gHeld = 0
    /\ gSeen = 0
    /\ gEvents = << >>

\* A Calibration::begin() call with result b, and its history.
CallBegin(b) ==
    /\ SetCalStatics(b.cal)
    /\ nvs' = b.nvs
    /\ beginCalls' = beginCalls + 1
    /\ startWrites' = startWrites + (IF b.wroteStart THEN 1 ELSE 0)

\* setup() on freshly initialised RAM: it reads the store, calls
\* Calibration::begin() on a device that has its MPU offsets and has not
\* hatched, and picks the phase.
RunSetup ==
    LET t == U32(SetupMs)
        b == Begin(CalInitial, nvs, t)
    IN  /\ pc' = "loop"
        /\ now' = t
        /\ s_macTotal' = nvs.mac_total
        /\ s_lastScanMs' = MainInitial.lastScanMs
        /\ s_scanInterval' = MainInitial.scanInterval
        /\ scansSinceFlush' = MainInitial.scansSinceFlush
        /\ IF ~nvs.mpu_offsets
           THEN /\ appState' = "MPU_CALIBRATION"
                /\ SetCalStatics(CalInitial)
                /\ UNCHANGED <<nvs, beginCalls, startWrites>>
           ELSE IF ~nvs.hatched
           THEN /\ CallBegin(b)
                /\ appState' = "EGG_PHASE"
           ELSE /\ appState' = "NORMAL"
                /\ SetCalStatics(CalInitial)
                /\ UNCHANGED <<nvs, beginCalls, startWrites>>
        /\ TimePasses(t, nvs')
        /\ wrapped' = FALSE
        /\ UNCHANGED <<lastOp, bloomVars, moodVars, unitVars>>

\* Calibration::onMacDiscovered calls in one behaviour of the unit on its own.
MaxDiscoveries == 6

\* Calibration::begin() called at the current counter value.
CalBegin ==
    LET b == Begin(CalStatics, nvs, now)
    IN  /\ SetCalStatics(b.cal)
        /\ nvs' = b.nvs
        /\ lastOp' = "Calibration::begin"
        /\ UNCHANGED <<now, mainVars, histVars, bloomVars, moodVars, unitVars>>

\* Calibration::onMacDiscovered(isStable)
CalOnMacDiscovered(isStable) ==
    /\ s_stableCount + s_randCount < MaxDiscoveries
    /\ SetCalStatics(OnMacsDiscovered(CalStatics, IF isStable THEN 1 ELSE 0,
                                      IF isStable THEN 0 ELSE 1))
    /\ lastOp' = "Calibration::onMacDiscovered"
    /\ UNCHANGED <<now, nvs, mainVars, histVars, bloomVars, moodVars, unitVars>>

\* First power-on: setup()
Setup ==
    /\ pc = "setup"
    /\ RunSetup
    /\ UNCHANGED <<boots, everHatched>>

\* Power is lost and restored: RAM is re-initialised, the counter restarts
\* from 0, the store is kept, and setup() runs again.
PowerCycle ==
    /\ pc = "loop"
    /\ boots < MaxBoots
    /\ boots' = boots + 1
    /\ RunSetup
    /\ UNCHANGED everHatched

\* loop() in MPU_CALIBRATION: runMpuCalibration()
RunMpuCalibration ==
    LET t == Add32(now, U32(MpuCalMs))
        n == [nvs EXCEPT !.mpu_offsets = TRUE]       \* Motion::runCalibration
        b == Begin(CalStatics, n, t)
    IN  /\ pc = "loop" /\ appState = "MPU_CALIBRATION"
        /\ now' = t
        /\ CallBegin(b)
        /\ appState' = "EGG_PHASE"
        /\ TimePasses(U32(MpuCalMs), nvs')
        /\ UNCHANGED <<pc, s_lastScanMs, s_scanInterval, s_macTotal,
                       scansSinceFlush, boots, everHatched, wrapped, lastOp,
                       bloomVars, moodVars, unitVars>>

\* loop() in EGG_PHASE: updateEggPhase(), r the result of the scan it runs
\* when one is due.
UpdateEggPhase(r) ==
    LET due      == ScanDue(now, s_scanInterval)
        c        == IF due THEN OnMacsDiscovered(CalStatics, r[1], r[2]) ELSE CalStatics
        t        == IF due THEN Add32(now, U32(ScanMs)) ELSE now
        complete == IsComplete(c, t)
    IN  /\ pc = "loop" /\ appState = "EGG_PHASE"
        /\ ~due => r = NoNewMacs
        /\ c.macCount <= MaxMacs
        /\ SetCalStatics(c)
        /\ s_lastScanMs' = IF due THEN now ELSE s_lastScanMs
        /\ now' = t
        /\ nvs' = IF complete THEN Lock(c, nvs) ELSE nvs
        /\ appState' = IF complete THEN "NORMAL" ELSE "EGG_PHASE"
        /\ everHatched' = (everHatched \/ complete)
        /\ TimePasses(Sub32(t, now), nvs')
        /\ UNCHANGED <<pc, s_scanInterval, s_macTotal, scansSinceFlush,
                       boots, startWrites, beginCalls, wrapped, lastOp, bloomVars,
                       moodVars, unitVars>>

\* loop() in NORMAL: updateNormalPhase() with doScan(); hungry is
\* Hunger::get() < 30, r the result of the scan run when one is due.
UpdateNormalPhase(hungry, r) ==
    LET interval == IF hungry THEN BLE_SCAN_HUNGRY_INTERVAL_S * 1000
                    ELSE BLE_SCAN_NORMAL_INTERVAL_S * 1000
        due      == ScanDue(now, interval)
        total    == s_macTotal + r[1] + r[2]
        flush    == scansSinceFlush + 1 >= FLUSH_SCANS
    IN  /\ pc = "loop" /\ appState = "NORMAL"
        /\ s_scanInterval' = interval
        /\ IF due
           THEN /\ total <= MaxMacs
                /\ s_lastScanMs' = now
                /\ s_macTotal' = total
                /\ scansSinceFlush' = IF flush THEN 0 ELSE scansSinceFlush + 1
                /\ nvs' = IF flush THEN [nvs EXCEPT !.mac_total = total] ELSE nvs
                /\ now' = Add32(now, U32(ScanMs))
           ELSE /\ r = NoNewMacs
                /\ UNCHANGED <<s_lastScanMs, s_macTotal, scansSinceFlush, nvs, now>>
        /\ TimePasses(Sub32(now', now), nvs')
        /\ UNCHANGED <<pc, appState, calVars, boots, startWrites, beginCalls,
                       everHatched, wrapped, lastOp, bloomVars, moodVars,
                       unitVars>>

\* Time passes in loop(): the frame delay and the iterations in which nothing
\* is due.  The counter moves to another observed value (to a lower one by
\* wrapping through 2^32).  The first iteration in MPU_CALIBRATION runs the
\* calibration, and an egg that is complete hatches in the next iteration,
\* before more time passes.
Advance(t) ==
    /\ pc = "loop"
    /\ t # now
    /\ appState # "MPU_CALIBRATION"
    /\ appState = "EGG_PHASE" => ~IsComplete(CalStatics, now)
    /\ now' = t
    /\ wrapped' = (wrapped \/ Lt32(t, now))
    /\ TimePasses(Sub32(t, now), nvs)
    /\ UNCHANGED <<nvs, calVars, mainVars, boots, startWrites, beginCalls,
                   everHatched, lastOp, bloomVars, moodVars, unitVars>>

Next ==
    \/ Setup
    \/ PowerCycle
    \/ RunMpuCalibration
    \/ \E r \in ScanResults : UpdateEggPhase(r)
    \/ \E hungry \in BOOLEAN, r \in ScanResults : UpdateNormalPhase(hungry, r)
    \/ \E t \in DeviceClock : Advance(t)

Spec == Init /\ [][Next]_vars

(***************************************************************************)
(* Calibration on its own                                                  *)
(***************************************************************************)

NextCalibration ==
    \/ CalBegin
    \/ \E isStable \in BOOLEAN : CalOnMacDiscovered(isStable)

SpecCalibration == Init /\ [][NextCalibration]_vars

(***************************************************************************)
(* One session of the device that is never powered off.  loop() is called  *)
(* again and again for as long as the device runs, so the phase handlers   *)
(* are taken when they stay enabled; the millisecond counter keeps running *)
(* and loop() reads it every frame, so each value of the clock that stays  *)
(* ahead is eventually observed.                                           *)
(***************************************************************************)

NextHatch ==
    \/ Setup
    \/ RunMpuCalibration
    \/ \E r \in ScanResults : UpdateEggPhase(r)
    \/ \E hungry \in BOOLEAN, r \in ScanResults : UpdateNormalPhase(hungry, r)
    \/ \E t \in DeviceClock : Advance(t)

SpecHatch ==
    /\ Init
    /\ [][NextHatch]_vars
    /\ WF_vars(Setup)
    /\ WF_vars(RunMpuCalibration)
    /\ WF_vars(\E r \in ScanResults : UpdateEggPhase(r))
    /\ \A t \in DeviceClock : WF_vars(Advance(t))

(***************************************************************************)
(* The buttons on their own                                                *)
(***************************************************************************)

NextButtons ==
    \/ ButtonsBegin
    \/ \E raw1 \in BOOLEAN, raw2 \in BOOLEAN : ButtonsPoll(raw1, raw2)
    \/ \E d \in PollGaps : ButtonsTick(d)

SpecButtons == Init /\ [][NextButtons]_vars

(***************************************************************************)
(* The BloomFilter object on its own                                       *)
(***************************************************************************)

FilterBegin(cfg, allocOk) ==
    /\ BloomBegin(cfg, allocOk)
    /\ lastOp' = "begin"
    /\ UNCHANGED <<now, moodVars, deviceVars, unitVars>>

FilterAdd(mac) ==
    /\ BloomAdd(mac)
    /\ lastOp' = "add"
    /\ UNCHANGED <<now, moodVars, deviceVars, unitVars>>

FilterContains(mac) ==
    /\ BloomContains(mac)
    /\ lastOp' = "contains"
    /\ UNCHANGED <<now, moodVars, deviceVars, unitVars>>

NextBloom ==
    \/ \E cfg \in BloomConfigs, allocOk \in BOOLEAN : FilterBegin(cfg, allocOk)
    \/ \E mac \in MACS : FilterAdd(mac)
    \/ \E mac \in MACS : FilterContains(mac)

SpecBloom == Init /\ [][NextBloom]_vars

(***************************************************************************)
(* Motion on its own                                                       *)
(***************************************************************************)

NextMotion == MotionUpdate \/ MotionPowerOn

SpecMotion == Init /\ [][NextMotion]_vars

(***************************************************************************)
(* The BloomFilter as main.cpp drives it                                   *)
(***************************************************************************)

NextStartup ==
    \/ \E allocOk \in BOOLEAN, tmpOk \in BOOLEAN : StartupSetup(allocOk, tmpOk)
    \/ \E mac \in RestoreMacs : StartupOnResult(mac)
    \/ StartupScanDone
    \/ StartupPowerCycle

SpecStartup == Init /\ [][NextStartup]_vars

(***************************************************************************)
(* The BloomFilter with its bytes saved and restored                       *)
(***************************************************************************)

NextRestore ==
    \/ \E cfg \in SizingCases, allocOk \in BOOLEAN : RestoreBegin(cfg, allocOk)
    \/ \E mac \in RestoreMacs : RestoreAdd(mac)
    \/ RestoreReset
    \/ RestoreSave
    \/ RestoreLoadFrom
    \/ \E cfg \in BloomConfigs, allocOk \in BOOLEAN, tmpOk \in BOOLEAN :
            RestoreSetup(cfg, allocOk, tmpOk)

SpecRestore == Init /\ [][NextRestore]_vars

(***************************************************************************)
(* The MoodEngine on its own                                               *)
(***************************************************************************)

NextMood ==
    \/ \E initial \in Moods : MoodBoot(initial)
    \/ \E t \in MoodClock : MoodTick(t)
    \/ \E a \in UpdateInputs : MoodUpdate(a[1], a[2], a[3], a[4])
    \/ \E f \in ForceInputs : MoodForceTransient(f[1], f[2])

SpecMood == Init /\ [][NextMood]_vars

(***************************************************************************)
(* The Hunger namespace and the MacBuffer object on their own              *)
(***************************************************************************)

NextHunger == HungerBegin \/ HungerFeed \/ HungerUpdate \/ HungerSet \/ HungerTick

SpecHunger == Init /\ [][NextHunger]_vars

NextBuffer == BufAdd \/ BufCountRecent \/ BufCountBreakdown \/ BufExpire \/ BufTick

SpecBuffer == Init /\ [][NextBuffer]_vars

(***************************************************************************)
(* Properties of the membership filter (checked under SpecBloom)           *)
(***************************************************************************)

\* C1: on a successfully configured filter every identity that has been
\* added tests positive -- both as the filter's answer in the current state
\* and as the value a contains() call just returned -- and an add() leaves
\* every bit that was set before it set.
C1_NoFalseNegatives ==
    /\ \A x \in bloomAdded : ~bitsNull /\ Contains(x)
    /\ (lastOp = "contains" /\ bloomRet.mac \in bloomAdded) => bloomRet.result
    /\ lastOp = "add" => bitsBefore \subseteq bits

\* Three identities were added to the small filter and contains() has just
\* answered true for one of them.
C1_Witness ==
    /\ lastOp = "contains"
    /\ bitSize = 15
    /\ Cardinality(bloomAdded) >= 3
    /\ bloomRet.mac \in bloomAdded
    /\ bloomRet.result

(***************************************************************************)
(* Properties of the calibration controller (checked under Spec)           *)
(***************************************************************************)

\* The 64-bit difference (uint64_t)t - start is at least 48 h.
Elapsed48h(start, t) == Lt32(t, start) \/ Le32(Duration32, Sub32(t, start))

\* The first session of the device, calibration begun, the counter not yet
\* wrapped: here the counter minus the start timestamp is the true elapsed time.
FirstSession ==
    boots = 0 /\ pc = "loop" /\ appState # "MPU_CALIBRATION" /\ ~wrapped

C3_HatchedIsTerminal ==
    everHatched =>
        /\ nvs.hatched
        /\ pc = "loop" => appState = "NORMAL"
        /\ Begin(CalStatics, nvs, now) =
              [ret |-> TRUE, cal |-> CalStatics, nvs |-> nvs, wroteStart |-> FALSE]

\* A boot after the hatch: setup() went straight to NORMAL and loaded none of
\* the calibration statics.
C3_Witness ==
    /\ everHatched
    /\ boots >= 1
    /\ pc = "loop"
    /\ appState = "NORMAL"
    /\ s_startMs = Zero32
    /\ nvs.cal_start # Zero32

\* C4: in a boot after a power cycle during the egg phase, remainingMs() and
\* progressPercent() are those of the true time since the persisted start
\* timestamp (so the time condition is not met before 48 h have passed).
C4_ProgressSurvivesPowerLoss ==
    (boots >= 1 /\ pc = "loop" /\ appState = "EGG_PHASE" /\ ~wrapped) =>
        /\ RemainingMs(CalStatics, now) = CALIBRATION_DURATION_MS - sinceStart
        /\ ProgressPercent(CalStatics, now) =
              sinceStart \div (CALIBRATION_DURATION_MS \div 100)

\* C5: the start timestamp is written by the first begin() call and by no
\* other: one write however many calls, and a further call at any clock
\* value leaves the persisted value as it is.
C5_StartStampedOnce ==
    /\ beginCalls = 0 => (startWrites = 0 /\ nvs.cal_start = Zero32)
    /\ beginCalls >= 1 =>
          /\ startWrites = 1
          /\ nvs.cal_start # Zero32
          /\ \A t \in DeviceClock \cup {Zero32, now} :
                Begin(CalStatics, nvs, t).nvs.cal_start = nvs.cal_start

\* begin() has run in two boots of an unhatched device and the start
\* timestamp was written once.
C5_Witness ==
    /\ beginCalls >= 2
    /\ startWrites = 1
    /\ ~nvs.hatched
    /\ s_startMs = nvs.cal_start

\* C6: a power cycle during the egg phase leaves macCount() and randRatio()
\* after the next begin() at their values before it.
C6_CountsSurvivePowerCycle ==
    [][(appState = "EGG_PHASE" /\ boots' = boots + 1) =>
          (s_macCount' = s_macCount /\ s_randRatio' = s_randRatio)]_vars

\* C7: once the hatched flag is persisted, no step writes the persisted total
\* count, random ratio, start timestamp or hatched flag.
C7_RecordFrozenOnceHatched ==
    [][nvs.hatched =>
          /\ nvs'.mac_total = nvs.mac_total
          /\ nvs'.rand_ratio = nvs.rand_ratio
          /\ nvs'.cal_start = nvs.cal_start
          /\ nvs'.hatched = nvs.hatched]_vars

(***************************************************************************)
(* Properties of the mood engine (checked under SpecMood)                  *)
(***************************************************************************)

\* An override is installed and the counter is before its expiry timestamp.
OverrideActive == s_inTransient /\ Lt32(now, s_transientEnd)

AllHungers == 0 .. 100

\* Hunger values on both sides of the thresholds 0, 20 and 60.
SomeHungers == {0, 1, 20, 21, 60, 61, 100}

\* Values of newMacsThisScan and recentMacs12h around the thresholds 3, 10, 20.
NewCounts == {0, 2, 3, 9, 10, 12}

RecentCounts == {0, 19, 20}

\* The rule list of the mood decision, first match wins.
BaseMoodRule(hunger, newThisScan, recent12h) ==
    CASE hunger = 0                          -> "SHOCKED"
      [] hunger # 0 /\ newThisScan >= 10     -> "EXCITED"
      [] hunger # 0 /\ newThisScan < 10 /\ (newThisScan >= 3 \/ recent12h >= 20)
                                             -> "HAPPY"
      [] hunger > 20 /\ newThisScan < 3 /\ recent12h < 20
                                             -> "CALM"
      [] hunger \in 1 .. 20 /\ newThisScan < 3 /\ recent12h < 20
                                             -> "SHOCKED"

\* C8: with no active override and a motion state other than SHAKEN, update
\* sets the base mood to the first matching rule's mood (hunger 0 SHOCKED,
\* 10 or more new EXCITED, 3 or more new or 20 or more recent HAPPY, hunger
\* above 20 CALM, else SHOCKED), getCurrent() then returns it, and hunger 50
\* with 12 new identities gives EXCITED.
C8_BaseMoodCascade ==
    ~OverrideActive =>
        /\ \A h \in AllHungers, m \in MotionStates \ {"SHAKEN"},
              n \in NewCounts, r \in RecentCounts :
              LET st   == Update(MoodStatics, now, h, m, n, r)
                  rule == BaseMoodRule(h, n, r)
              IN  st.mood = rule /\ GetCurrent(st, now) = rule
        /\ \A m \in MotionStates \ {"SHAKEN"} :
              GetCurrent(Update(MoodStatics, now, 50, m, 12, 0), now) = "EXCITED"
        /\ (lastOp = "update" /\ lastArgs[2] # "SHAKEN") =>
              s_mood = BaseMoodRule(lastArgs[1], lastArgs[3], lastArgs[4])

\* update(50, IN_TRANSIT, 12, 0) has just run with no override in the way
\* and left EXCITED.
C8_Witness ==
    /\ lastOp = "update"
    /\ lastArgs = <<50, "IN_TRANSIT", 12, 0>>
    /\ ~s_inTransient
    /\ s_mood = "EXCITED"

\* C9: while an override is active, update with any inputs leaves every
\* static as it is, and the current mood is the override's.
C9_ActiveOverrideWins ==
    OverrideActive =>
        \A h \in SomeHungers, m \in MotionStates, n \in NewCounts, r \in RecentCounts :
            LET st == Update(MoodStatics, now, h, m, n, r)
            IN  /\ st = MoodStatics
                /\ GetCurrent(st, now) = s_transient

\* update(0, SHAKEN, 0, 0) has just run under the HAPPY override of a pet,
\* which is still active.
C9_Witness ==
    /\ lastOp = "update"
    /\ lastArgs = <<0, "SHAKEN", 0, 0>>
    /\ OverrideActive
    /\ s_transient = "HAPPY"
    /\ s_mood = "HAPPY"

\* C10 as stated: with hunger 0 and no active override, update yields
\* SHOCKED for every motion state, SHAKEN included, and all novelty counts.
C10_StarvingAlwaysShocked ==
    ~OverrideActive =>
        \A m \in MotionStates, n \in NewCounts, r \in RecentCounts :
            LET st == Update(MoodStatics, now, 0, m, n, r)
            IN  st.mood = "SHOCKED" /\ GetCurrent(st, now) = "SHOCKED"

\* C10 amended: with hunger 0 and no active override, update yields SHOCKED
\* for the motion states STATIONARY, CARRIED and IN_TRANSIT and all novelty
\* counts; with SHAKEN it installs the 5000 ms ANGRY override instead.
C10_StarvingShockedUnlessShaken ==
    ~OverrideActive =>
        \A m \in MotionStates, n \in NewCounts, r \in RecentCounts :
            LET st == Update(MoodStatics, now, 0, m, n, r)
            IN  IF m = "SHAKEN"
                THEN st = ForceTransient(MoodStatics, now, "ANGRY", 5000)
                ELSE /\ st.mood = "SHOCKED"
                     /\ ~st.inTransient
                     /\ GetCurrent(st, now) = "SHOCKED"

\* update(0, CARRIED, 12, 20) has just run with no override in the way and
\* left SHOCKED, whatever the novelty.
C10_Witness ==
    /\ lastOp = "update"
    /\ lastArgs = <<0, "CARRIED", 12, 20>>
    /\ ~s_inTransient
    /\ s_mood = "SHOCKED"

(***************************************************************************)
(* The MoodEngine with the history of its overrides.  The history counts   *)
(* elapsed milliseconds and is kept apart from the 32-bit counter the code *)
(* reads.                                                                  *)
(***************************************************************************)

\* Clock values the overrides are observed at: the last millisecond of and
\* the first one after a 2000 ms and a 5000 ms override installed at 0, and
\* 1000 ms before the counter wraps.
OverrideClock ==
    U32Set({0, 1999, 2000, 4999, 5000}) \cup {<<W16 - 1, W16 - 1000>>}

\* The <<hunger, motion, newMacsThisScan, recentMacs12h>> update is called with.
OverrideUpdateInputs ==
    { <<0, "SHAKEN", 0, 0>>,    <<61, "CARRIED", 0, 0>>,
      <<0, "STATIONARY", 0, 0>>, <<50, "IN_TRANSIT", 12, 0>> }

\* The moods Storage::getMood() hands to begin().
BootMoods == {"CALM", "SHOCKED"}

\* x + d saturating at 5000, the longest override, for a 32-bit duration d.
SatAddAge(x, d) ==
    IF d[1] >= 1 THEN 5000 ELSE Min(5000, x + ToInt(d))

\* An override is installed and less than its duration has elapsed since.
OverrideRunning == ovBy # "none" /\ ovAge < ovDur

TimedBoot ==
    \E initial \in BootMoods :
        /\ now' = Zero32
        /\ SetMoodStatics([MoodInitial EXCEPT !.mood = initial])
        /\ ovBy' = "none"
        /\ ovAge' = 0
        /\ ovDur' = 0
        /\ ovMood' = "CALM"
        /\ unforced' = initial
        /\ moodRet' = NoGetCurrent
        /\ lastOp' = "boot"
        /\ UNCHANGED <<lastArgs, bloomVars, deviceVars, hungerVars, bufferVars,
                       motionVars, restoreVars, scanVars, buttonVars>>

TimedTick ==
    \E t \in OverrideClock \ {now} :
        /\ now' = t
        /\ ovAge' = IF ovBy = "none" THEN 0 ELSE SatAddAge(ovAge, Sub32(t, now))
        /\ moodRet' = NoGetCurrent
        /\ lastOp' = "tick"
        /\ UNCHANGED <<s_mood, s_transient, s_inTransient, s_transientEnd,
                       lastArgs, ovBy, ovDur, ovMood, unforced, bloomVars,
                       deviceVars, hungerVars, bufferVars,
                       motionVars, restoreVars, scanVars, buttonVars>>

\* update: with no override running, a shake starts one and any other motion
\* lets the rule cascade set the mood.
TimedUpdate ==
    \E a \in OverrideUpdateInputs :
        /\ SetMoodStatics(Update(MoodStatics, now, a[1], a[2], a[3], a[4]))
        /\ IF OverrideRunning
           THEN UNCHANGED <<ovBy, ovAge, ovDur, ovMood, unforced>>
           ELSE IF a[2] = "SHAKEN"
                THEN /\ ovBy' = "shake"
                     /\ ovAge' = 0
                     /\ ovDur' = 5000
                     /\ ovMood' = "ANGRY"
                     /\ UNCHANGED unforced
                ELSE /\ ovBy' = "none"
                     /\ ovAge' = 0
                     /\ ovDur' = 0
                     /\ ovMood' = "CALM"
                     /\ unforced' = BaseMoodRule(a[1], a[3], a[4])
        /\ moodRet' = NoGetCurrent
        /\ lastOp' = "update"
        /\ UNCHANGED <<now, lastArgs, bloomVars, deviceVars, hungerVars,
                       bufferVars,
                       motionVars, restoreVars, scanVars, buttonVars>>

TimedForceTransient ==
    \E f \in ForceInputs :
        /\ SetMoodStatics(ForceTransient(MoodStatics, now, f[1], f[2]))
        /\ ovBy' = "force"
        /\ ovAge' = 0
        /\ ovDur' = f[2]
        /\ ovMood' = f[1]
        /\ moodRet' = NoGetCurrent
        /\ lastOp' = "forceTransient"
        /\ UNCHANGED <<now, lastArgs, unforced, bloomVars, deviceVars,
                       hungerVars, bufferVars,
                       motionVars, restoreVars, scanVars, buttonVars>>

MoodGetCurrent ==
    /\ moodRet' = [called |-> TRUE, before |-> MoodStatics,
                   value |-> GetCurrent(MoodStatics, now)]
    /\ lastOp' = "getCurrent"
    /\ UNCHANGED <<now, moodVars, ovBy, ovAge, ovDur, ovMood, unforced,
                   bloomVars, deviceVars, hungerVars, bufferVars,
                       motionVars, restoreVars, scanVars, buttonVars>>

NextOverride ==
    TimedBoot \/ TimedTick \/ TimedUpdate \/ TimedForceTransient \/ MoodGetCurrent

SpecOverride == Init /\ [][NextOverride]_vars

(***************************************************************************)
(* C11 .. C13: overrides in elapsed time                                   *)
(***************************************************************************)

\* The mood getCurrent() would report after one more update call with a.
MoodAfterUpdate(a) ==
    GetCurrent(Update(MoodStatics, now, a[1], a[2], a[3], a[4]), now)

\* C11: an update with motion SHAKEN and no override running installs an
\* ANGRY override expiring 5000 ms later, and during the 5000 ms that follow
\* getCurrent and every update, whatever its inputs, yield ANGRY.
C11_ShakeHoldsAngryFor5000ms ==
    ovBy = "shake" /\ ovAge < 5000
        => /\ GetCurrent(MoodStatics, now) = "ANGRY"
           /\ \A a \in UpdateInputs : MoodAfterUpdate(a) = "ANGRY"
           /\ lastOp = "update" /\ ovAge = 0
                => /\ s_inTransient
                   /\ s_transient = "ANGRY"
                   /\ s_transientEnd = Add32(now, U32(5000))

\* C12: getCurrent returns the override mood iff an override is installed and
\* the clock is before its expiry, else the base mood, and changes no static;
\* forceTransient(m, d) leaves an override with mood m and expiry now + d
\* installed and the base mood at m, whatever was installed before.
C12_GetCurrentAndForceTransient ==
    /\ lastOp = "getCurrent"
        => /\ moodRet.value = IF s_inTransient /\ Lt32(now, s_transientEnd)
                              THEN s_transient ELSE s_mood
           /\ moodRet.before = MoodStatics
    /\ lastOp = "forceTransient"
        => /\ s_inTransient
           /\ s_transient = ovMood
           /\ s_transientEnd = Add32(now, U32(ovDur))
           /\ s_mood = ovMood

\* getCurrent is called 1999 ms into a pet override installed over the base
\* mood SHOCKED.
C12_Witness ==
    /\ lastOp = "getCurrent"
    /\ ovBy = "force"
    /\ ovAge = 1999
    /\ s_inTransient
    /\ Lt32(now, s_transientEnd)
    /\ moodRet.value = "HAPPY"
    /\ unforced = "SHOCKED"

\* C13: once the duration of a forceTransient(m, d) has elapsed, getCurrent
\* reports the mood that begin or update's rule cascade set last, even if
\* update has not been called since.
C13_ForcedMoodReverts ==
    lastOp = "getCurrent" /\ ovBy = "force" /\ ovAge >= ovDur
        => moodRet.value = unforced

(***************************************************************************)
(* C14 .. C17: Hunger                                                      *)
(***************************************************************************)

\* C14: after any sequence of begin, feed, update and set calls, with any
\* arguments, Hunger::get() returns a value in [0,100].
C14_HungerWithinRange == HungerGet \in 0 .. HUNGER_MAX

\* C15: from a hunger in [0,100], feed leaves min(old + increment, 100) with
\* an increment in 8..12 for a stable identity and 2..4 for a random one;
\* the value never drops and never passes 100.
C15_FeedAddsAndClamps ==
    lastOp = "Hunger::feed" /\ hungerPrev.hunger \in 0 .. 100
        => /\ \E increment \in IF hungerPrev.arg = "stable" THEN 8 .. 12 ELSE 2 .. 4 :
                s_hunger = Min(hungerPrev.hunger + increment, 100)
           /\ s_hunger >= hungerPrev.hunger
           /\ s_hunger <= 100

\* A stable feed at 95 is clamped to 100.
C15_Witness ==
    /\ lastOp = "Hunger::feed"
    /\ hungerPrev.arg = "stable"
    /\ hungerPrev.hunger = 95
    /\ s_hunger = 100

\* C16: an update call made less than 60000 ms of elapsed time after begin or
\* the last applied decay changes neither the hunger nor the last-applied
\* timestamp, so two applied decays are at least 60000 ms apart; also when the
\* 32-bit counter wraps in between.
C16_DecayAtMostOncePerInterval ==
    lastOp = "Hunger::update"
        => /\ hungerPrev.sinceDecay < 60000
                => /\ ~hungerPrev.applied
                   /\ s_hunger = hungerPrev.hunger
                   /\ s_lastDecayMs = hungerPrev.lastDecayMs
           /\ hungerPrev.applied => hungerPrev.sinceDecay >= 60000

\* update is called 59999 ms after a decay applied 30000 ms before the counter
\* wrapped, and applies nothing.
C16_Witness ==
    /\ lastOp = "Hunger::update"
    /\ hungerPrev.sinceDecay = 59999
    /\ Lt32(now, s_lastDecayMs)
    /\ ~hungerPrev.applied
    /\ s_hunger = 68

\* C17: an applied decay lowers the hunger by 2 when the motion state is
\* STATIONARY and by 1 for every other state, stopping at 0; the 8-bit value
\* never wraps below 0.
C17_DecayAmountFlooredAtZero ==
    lastOp = "Hunger::update" /\ hungerPrev.applied
        => LET decay == IF hungerPrev.arg = "STATIONARY" THEN 2 ELSE 1
           IN  /\ s_hunger = IF hungerPrev.hunger >= decay
                             THEN hungerPrev.hunger - decay ELSE 0
               /\ s_hunger <= hungerPrev.hunger

\* A STATIONARY decay applied to a hunger of 1 leaves 0.
C17_Witness ==
    /\ lastOp = "Hunger::update"
    /\ hungerPrev.applied
    /\ hungerPrev.arg = "STATIONARY"
    /\ hungerPrev.hunger = 1
    /\ s_hunger = 0

(***************************************************************************)
(* C18 .. C20: MacBuffer                                                   *)
(***************************************************************************)

\* The window as a 32-bit value.
Window32 == U32(NOVELTY_WINDOW_MS)

\* The add() calls whose entries a buffer of BufferSlots slots still holds:
\* the latest min(N, BufferSlots) of the N made.
Latest == {k \in DOMAIN bufHistory : k > Len(bufHistory) - BufferSlots}

\* The slot the k-th add() wrote.
SlotOfAdd(k) == (k - 1) % BufferSlots

\* Slot i has a non-zero timestamp, passes the stableOnly filter and is less
\* than one window old by the counter.
SlotCounted(i, stableOnly) ==
    /\ buf[i].timestamp # Zero32
    /\ stableOnly => buf[i].isStable
    /\ Lt32(Sub32(now, buf[i].timestamp), Window32)

\* C18: countRecent counts a slot iff its timestamp is non-zero and its age,
\* now - timestamp, is strictly below the window; an entry recorded at 0x10 is
\* counted 43199999 ms later and not 43200000 ms later.
C18_CountRecentWindowBoundary ==
    lastOp = "MacBuffer::countRecent"
        => /\ bufRet.n = Cardinality({i \in Slots : SlotCounted(i, bufRet.stableOnly)})
           /\ count = 1 /\ ~bufRet.stableOnly /\ buf[0].timestamp = U32(16)
                => /\ now = U32(16 + 43199999) => bufRet.n = 1
                   /\ now = U32(16 + 43200000) => bufRet.n = 0
                   /\ bufHistory[1].age < 43200000 => bufRet.n = 1

\* One entry was recorded at 0x10; exactly one window later countRecent
\* returns 0.
C18_Witness ==
    /\ lastOp = "MacBuffer::countRecent"
    /\ count = 1
    /\ ~bufRet.stableOnly
    /\ buf[0].timestamp = U32(16)
    /\ now = U32(16 + NOVELTY_WINDOW_MS)
    /\ bufHistory[1].age = NOVELTY_WINDOW_MS
    /\ bufRet.n = 0

\* C19: for an entry less than one window old in elapsed time, now - timestamp
\* in 32-bit arithmetic is its age also when the counter has wrapped since it
\* was recorded, and countRecent counts it: recorded at 0xFFFFFFF0 and queried
\* at 0x10, its age is 0x20.
C19_AgeModuloWrap ==
    /\ \A k \in Latest :
            bufHistory[k].age < NOVELTY_WINDOW_MS
                => Sub32(now, bufHistory[k].timestamp) = U32(bufHistory[k].age)
    /\ lastOp = "MacBuffer::countRecent" /\ ~bufRet.stableOnly
            => bufRet.n >= Cardinality({k \in Latest :
                                /\ bufHistory[k].timestamp # Zero32
                                /\ bufHistory[k].age < NOVELTY_WINDOW_MS})

\* The entry recorded at 0xFFFFFFF0 is counted at 0x10, 32 ms later.
C19_Witness ==
    /\ lastOp = "MacBuffer::countRecent"
    /\ ~bufRet.stableOnly
    /\ count = 1
    /\ bufHistory[1].timestamp = <<W16 - 1, W16 - 16>>
    /\ bufHistory[1].age = 32
    /\ now = U32(16)
    /\ bufRet.n = 1

\* C20: add writes the slot at the cursor and advances the cursor by one
\* modulo the capacity; after N adds the buffer holds the latest
\* min(N, capacity) entries; countRecent never exceeds the capacity, and it
\* equals the capacity after more than capacity adds inside one window.
C20_AddOverwritesOldest ==
    /\ count = Len(bufHistory)
    /\ head = count % BufferSlots
    /\ \A k \in Latest :
            /\ buf[SlotOfAdd(k)].hash = bufHistory[k].hash
            /\ buf[SlotOfAdd(k)].isStable = bufHistory[k].isStable
            /\ \/ buf[SlotOfAdd(k)].timestamp = bufHistory[k].timestamp
               \/ /\ buf[SlotOfAdd(k)].timestamp = Zero32
                  /\ bufHistory[k].age = NOVELTY_WINDOW_MS
    /\ lastOp = "MacBuffer::countRecent"
            => /\ bufRet.n <= BufferSlots
               /\ (/\ ~bufRet.stableOnly
                   /\ count > BufferSlots
                   /\ \A k \in Latest : bufHistory[k].age < NOVELTY_WINDOW_MS)
                    => bufRet.n = BufferSlots

(***************************************************************************)
(* C21: MacBuffer::expire                                                  *)
(***************************************************************************)

\* The slots as they would be had expire() never been called: add() is the
\* only other writer, so each holds what the last add() to it recorded.
NeverExpired ==
    [i \in Slots |->
        IF \E k \in Latest : SlotOfAdd(k) = i
        THEN LET k == CHOOSE j \in Latest : SlotOfAdd(j) = i
             IN  [hash |-> bufHistory[k].hash,
                  timestamp |-> bufHistory[k].timestamp,
                  isStable |-> bufHistory[k].isStable]
        ELSE EmptyEntry]

\* C21: countRecent and countBreakdown return what they would return had
\* expire() never been called, whatever adds and clock advances came before;
\* expire leaves the cursor, the total and every entry inside the window as
\* they were.
C21_ExpireNotRequired ==
    /\ lastOp = "MacBuffer::countRecent"
            => bufRet.n = CountRecent(NeverExpired, bufRet.stableOnly, now)
    /\ lastOp = "MacBuffer::countBreakdown"
            => /\ bufRet.stable = CountBreakdown(NeverExpired, now).stable
               /\ bufRet.random = CountBreakdown(NeverExpired, now).random
    /\ lastOp = "MacBuffer::expire"
            => /\ head = count % BufferSlots
               /\ count = Len(bufHistory)
               /\ \A k \in Latest :
                    bufHistory[k].age < NOVELTY_WINDOW_MS
                        => buf[SlotOfAdd(k)] = NeverExpired[SlotOfAdd(k)]

(***************************************************************************)
(* Claims about Motion                                                     *)
(***************************************************************************)

\* C22: whenever the sample update() has just taken differs from 16384 by
\* more than 2500, the state is SHAKEN whatever the history holds, and the
\* sample sits in the history slot update() has just moved past.
C22_ShakePreemptsClassifier ==
    (lastOp = "Motion::update" /\ IsShake(s_accelMag))
        => /\ s_state = "SHAKEN"
           /\ s_magHistory[(s_histIdx + HISTORY - 1) % HISTORY] = s_accelMag

\* A shake just over the threshold arrived on a full history that already
\* held another sample off the baseline.
C22_Witness ==
    /\ lastOp = "Motion::update"
    /\ s_accelMag = BaselineMagnitude - SHAKE_THRESHOLD - 1
    /\ s_state = "SHAKEN"
    /\ motionTicks = HISTORY
    /\ OddSamples(s_magHistory) = 2

\* The population variance of the history exceeds limit.  With q and r the
\* quotient and remainder of the sum by 16 and S the sum of (x - q)^2,
\* 16 * variance = S - r^2 / 16; S beyond the range of long exceeds any
\* limit used here.
VarianceExceeds(h, limit) ==
    LET q == SumUpTo(h, HISTORY) \div HISTORY
        r == SumUpTo(h, HISTORY) % HISTORY
        s == SumSquares(h, q, 0, 0)
    IN  \/ s.overflow
        \/ HISTORY * Min(s.value - HISTORY * limit, HISTORY) > r * r

\* The class the population variance of the history stands for.
PopulationClass(h) ==
    IF VarianceExceeds(h, CARRIED_VARIANCE * CARRIED_VARIANCE) THEN "CARRIED"
    ELSE IF VarianceExceeds(h, TRANSIT_VARIANCE * TRANSIT_VARIANCE)
    THEN "IN_TRANSIT"
    ELSE "STATIONARY"

\* C23: after update() on a sample that is not a shake, the state is the
\* class of the population variance of the 16-sample history: CARRIED above
\* 800^2, else IN_TRANSIT above 200^2, else STATIONARY.
C23_StateDeterminedByVariance ==
    (lastOp = "Motion::update" /\ ~IsShake(s_accelMag))
        => s_state = PopulationClass(s_magHistory)

\* C24: once the last 16 samples or more were all at the baseline, the state
\* is STATIONARY, whatever came before them.
C24_SixteenBaselineSamplesStationary ==
    baselineRun = HISTORY => s_state = "STATIONARY"

\* Sixteen baseline samples followed a shake.
C24_Witness ==
    /\ lastOp = "Motion::update"
    /\ baselineRun = HISTORY
    /\ IsShake(lastOddMag)
    /\ s_state = "STATIONARY"

\* C25: from power-on, while every sample so far was at the baseline, each
\* of the first 15 calls of update() leaves the state STATIONARY.
C25_RestIsStationaryFromBoot ==
    (lastOp = "Motion::update" /\ motionTicks < HISTORY
                               /\ baselineRun = motionTicks)
        => s_state = "STATIONARY"

(***************************************************************************)
(* Claims about saving and restoring the BloomFilter (SpecRestore)         *)
(***************************************************************************)

\* C26: in every state of a configured filter, whatever operations came
\* after the add -- add, reset, serialization, loadFrom -- every identity
\* added during the filter's lifetime tests positive.
C26_AddedStaysContained ==
    (~bitsNull /\ bitSize > 0) => \A mac \in bloomAdded : Contains(mac)

\* C27: loadFrom called with the bytes and length taken from a filter of the
\* same bit size and hash count succeeds, and leaves the bit array, and the
\* contains() answer for every identity, as they were in the filter the
\* bytes were taken from.
C27_RestoreRoundTrip ==
    (/\ lastOp = "loadFrom"
     /\ ~bitsNull /\ bitSize > 0
     /\ blob.bitSize = bitSize /\ blob.numHash = numHash)
        => /\ loadRet.result
           /\ bits = blob.bits
           /\ \A mac \in MACS : Contains(mac) <=> Probes(mac) \subseteq blob.bits

\* Bytes taken from a filter holding an identity were restored into a filter
\* of the same configuration whose array differed.
C27_Witness ==
    /\ lastOp = "loadFrom"
    /\ loadRet.result
    /\ blob.bitSize = bitSize /\ blob.numHash = numHash
    /\ blob.bits # {}
    /\ bits = blob.bits
    /\ bitsBefore # bits

\* C28: loadFrom called with a length other than the configured byte size
\* returns false and leaves the bit array as it was; and setup() finding
\* persisted bytes of another length ends with a configured filter whose
\* bits are all zero.
C28_WrongLengthRejected ==
    /\ (lastOp = "loadFrom" /\ loadRet.len # byteSize)
            => ~loadRet.result /\ bits = bitsBefore
    /\ (lastOp = "setup" /\ blob.len # byteSize)
            => bits = {} /\ bloomAdded = {}

\* loadFrom has just refused bytes of another length on a filter that holds
\* an identity.
C28_Witness ==
    /\ lastOp = "loadFrom"
    /\ ~bitsNull
    /\ blob.len # 0 /\ blob.len # byteSize
    /\ ~loadRet.result
    /\ bits # {} /\ bits = bitsBefore

\* C29: begin returns false whenever the computed bit count is zero, and
\* when it returns true the bit count is positive and the hash count lies
\* in 1 .. 20.  begin returns true exactly when _bits is not null.
C29_BeginReportsUnsizable ==
    lastOp = "begin"
        => /\ bitSize = 0 => bitsNull
           /\ ~bitsNull => bitSize > 0 /\ numHash \in 1 .. 20

\* C30: the device never runs loop(), from which scans are started, with a
\* filter whose begin failed, and no probe of add or contains is ever made
\* on such a filter.
C30_ConfigurationFailureIsFatal ==
    /\ pc = "loop" => ~bitsNull
    /\ lastOp # "fault"

(***************************************************************************)
(* C36, C37, C39: the 32-bit counter and the 32-bit long                   *)
(***************************************************************************)

\* C36: while less than its duration has elapsed since forceTransient(m, d),
\* getCurrent returns m; once the duration has elapsed the override test of
\* getCurrent and update (installed, and the counter before the expiry) is
\* false, and stays false until the next forceTransient -- at every value of
\* the counter, also when now + d passed 2^32.
C36_OverrideLastsExactlyItsDuration ==
    /\ (lastOp = "getCurrent" /\ ovBy = "force" /\ ovAge < ovDur)
            => moodRet.value = ovMood
    /\ (ovBy = "force" /\ ovAge >= ovDur)
            => ~(s_inTransient /\ Lt32(now, s_transientEnd))

\* C37: countRecent counts at least the entries add() recorded whose slot
\* has not been overwritten, whose age is below the window and which pass
\* the stableOnly filter, whatever the counter read when they were recorded.
C37_RecordedEntryIsCounted ==
    lastOp = "MacBuffer::countRecent"
        => bufRet.n >= Cardinality({k \in Latest :
                            /\ bufHistory[k].age < NOVELTY_WINDOW_MS
                            /\ bufRet.stableOnly => bufHistory[k].isStable})

\* C39: when update() reaches the variance loop, the sum of the squared
\* deviations of the 16 samples from their mean fits a long.
C39_SumOfSquaresFitsLong ==
    (lastOp = "Motion::update" /\ ~IsShake(s_accelMag))
        => ~SumSquares(s_magHistory, Mean(s_magHistory), 0, 0).overflow

(***************************************************************************)
(* C32, C33: Calibration                                                   *)
(***************************************************************************)

\* C32: in the first session, egg phase, progressPercent() and remainingMs()
\* are functions of the time elapsed since the start timestamp alone --
\* elapsed / 1728000 capped at 100, and 172800000 - elapsed floored at 0 --
\* so both stay in range, progress is 100 exactly when nothing remains, and
\* neither moves backwards as time goes on, also after the counter wrapped.
C32_ProgressFollowsElapsedTime ==
    (boots = 0 /\ pc = "loop" /\ appState = "EGG_PHASE")
        => /\ ProgressPercent(CalStatics, now) \in 0 .. 100
           /\ RemainingMs(CalStatics, now) \in 0 .. CALIBRATION_DURATION_MS
           /\ ProgressPercent(CalStatics, now) = 100
                <=> RemainingMs(CalStatics, now) = 0
           /\ ProgressPercent(CalStatics, now) =
                sinceStart \div (CALIBRATION_DURATION_MS \div 100)
           /\ RemainingMs(CalStatics, now) = CALIBRATION_DURATION_MS - sinceStart

\* C33: after any sequence of begin and onMacDiscovered calls the total is
\* the sum of the stable and the random count and the ratio lies in [0, 1];
\* after onMacDiscovered the ratio is randomCount / (stableCount + randomCount).
C33_TotalIsSumOfClasses ==
    /\ s_macCount = s_stableCount + s_randCount
    /\ s_randRatio[1] >= 0 /\ s_randRatio[1] <= s_randRatio[2]
    /\ lastOp = "Calibration::onMacDiscovered"
            => s_randRatio = Ratio(s_randCount, s_stableCount + s_randCount)

(***************************************************************************)
(* C34, C35: the device phase                                              *)
(***************************************************************************)

PhaseRank(s) ==
    CASE s = "MPU_CALIBRATION" -> 0
      [] s = "EGG_PHASE"       -> 1
      [] s = "NORMAL"          -> 2

\* C34: every step leaves the phase where it is or moves it one phase forward
\* (MPU_CALIBRATION -> EGG_PHASE -> NORMAL), across power cycles too; the step
\* from EGG_PHASE to NORMAL is one in which isComplete() is true and lock()
\* has persisted the hatched flag with the total; NORMAL in loop() implies
\* the persisted hatched flag; and a device that has been in NORMAL is never
\* in EGG_PHASE again.
C34_PhaseOnlyMovesForward ==
    [][/\ PhaseRank(appState') \in {PhaseRank(appState), PhaseRank(appState) + 1}
       /\ (appState = "EGG_PHASE" /\ appState' = "NORMAL")
              => /\ IsComplete(CalStatics', now')
                 /\ nvs'.hatched
                 /\ nvs' = Lock(CalStatics', nvs)
       /\ (pc' = "loop" /\ appState' = "NORMAL") => nvs'.hatched
       /\ (everHatched \/ appState = "NORMAL") => appState' # "EGG_PHASE"]_vars

\* An egg that lost power once has hatched in its second session: the
\* statics of this boot are complete, and lock() persisted the flag and the
\* total.
C34_Witness ==
    /\ boots >= 1
    /\ pc = "loop"
    /\ appState = "NORMAL"
    /\ s_macCount >= CALIBRATION_MIN_MACS
    /\ nvs.hatched
    /\ nvs.mac_total = s_macCount

\* C35: in a session without a power cycle, an egg whose scans have reported
\* at least 50 identities eventually hatches: lock() persists the hatched
\* flag and the device is in NORMAL.
C35_EggEventuallyHatches ==
    (appState = "EGG_PHASE" /\ s_macCount >= CALIBRATION_MIN_MACS)
        ~> (appState = "NORMAL" /\ nvs.hatched)

\* The egg held 50 identities before the time had elapsed, went on scanning,
\* and hatched later in the same session.
C35_Witness ==
    /\ boots = 0
    /\ appState = "NORMAL"
    /\ nvs.hatched
    /\ s_macCount = 2 * CALIBRATION_MIN_MACS

(***************************************************************************)
(* C31: the scan callback                                                  *)
(***************************************************************************)

\* C31: a callback step counts an identity as new (its class counter goes up
\* by one and the MacBuffer gets its entry) exactly when the filter did not
\* contain it before the step, and the filter contains it after the step;
\* a callback step that counts nothing was for an identity the filter
\* contained and leaves the counters, the buffer and the filter's bits alone;
\* and no identity is counted as new twice between two power-ons.
C31_CountedAsNewOncePerLifetime ==
    [][/\ \A mac \in RestoreMacs : newCounted'[mac] <= 1
       /\ lastOp' = "onResult" =>
            /\ \A mac \in RestoreMacs :
                 newCounted'[mac] # newCounted[mac] =>
                    /\ ~Contains(mac)
                    /\ Probes(mac) \subseteq bits'
                    /\ newCounted'[mac] = newCounted[mac] + 1
                    /\ s_newRandom' = s_newRandom + (IF IsRandomised(mac) THEN 1 ELSE 0)
                    /\ s_newStable' = s_newStable + (IF IsRandomised(mac) THEN 0 ELSE 1)
                    /\ count' = count + 1
                    /\ buf'[head] = [hash |-> MacHash(mac), timestamp |-> now,
                                     isStable |-> ~IsRandomised(mac)]
            /\ newCounted' = newCounted =>
                    /\ Contains(bloomRet'.mac)
                    /\ bloomRet'.result
                    /\ UNCHANGED <<bits, buf, head, count, s_newStable, s_newRandom>>]_vars

\* Both identities were counted as new in this process, one of each class in
\* the running scan, and a further advertisement of one of them was not.
C31_Witness ==
    /\ lastOp = "onResult"
    /\ \A mac \in RestoreMacs : newCounted[mac] = 1
    /\ s_newStable = 1 /\ s_newRandom = 1
    /\ count = 2
    /\ bloomRet.result
    /\ bloomRet.mac \in RestoreMacs

(***************************************************************************)
(* C38: the buttons                                                        *)
(***************************************************************************)

\* C38: once all buttons are released, the events poll() has returned for
\* the gesture are: for one button seen down for at least 2000 ms exactly one
\* BTNx_HOLD, for one button seen down for at least 50 ms and found released
\* before 2000 ms exactly one BTNx_SHORT, for one button found released
\* before 50 ms none, and for both buttons seen down together for at least
\* 10000 ms exactly one BOTH_HOLD_LONG and nothing else.
C38_OneEventPerGesture ==
    (~GestureUnderWay /\ gShape \in {"one1", "one2", "both"}) =>
        LET n == IF gShape = "one2" THEN "2" ELSE "1"
        IN  /\ (gShape # "both" /\ gSeen >= BTN_HOLD_SHORT_MS)
                  => gEvents = << "BTN" \o n \o "_HOLD" >>
            /\ (gShape # "both" /\ gSeen >= BTN_DEBOUNCE_MS /\ gHeld < BTN_HOLD_SHORT_MS)
                  => gEvents = << "BTN" \o n \o "_SHORT" >>
            /\ (gShape # "both" /\ gHeld < BTN_DEBOUNCE_MS)
                  => gEvents = << >>
            /\ (gShape = "both" /\ gSeen >= BTN_HOLD_DIAG_MS)
                  => gEvents = << "BOTH_HOLD_LONG" >>

=============================================================================
